---- MODULE Spec2Model ----
(***************************************************************************)
(* The per-request orchestration state machine of the Curve HTTP filter    *)
(* (src/curve/src/stream_context.rs): one inbound request, the outbound    *)
(* sub-requests it dispatches, and the host calls it makes.                *)
(*                                                                         *)
(* Conventions.  An Option is a sequence: None is <<>> and Some(x) is      *)
(* <<x>>; an absent JSON field is None.  A string whose prefix matters (a  *)
(* model name) is a sequence of chunks, so that starts_with is a prefix    *)
(* test.  An f64 score is an integer number of hundredths; 0.7*a + 0.3*b   *)
(* is compared as 7*a + 3*b against 10*t, which is exact where f64 rounds. *)
(***************************************************************************)
EXTENDS Integers, Sequences, FiniteSets, TLC

None == <<>>
Some(x) == <<x>>
is_some(o) == o # <<>>
is_none(o) == o = <<>>
unwrap(o) == o[1]
unwrap_or(o, d) == IF o = <<>> THEN d ELSE o[1]

\* ---------------------------------------------------------------- bounds
\* Longest inbound messages list.
MaxMessages == 2
\* Longest tool_calls list of a function-resolver reply.
MaxToolCalls == 2

\* ------------------------------------------------------------- constants
\* consts::DEFAULT_PROMPT_TARGET_THRESHOLD, in hundredths (spec: 0.5).
DEFAULT_PROMPT_TARGET_THRESHOLD == 50
GPT_35_TURBO == <<"gpt-3.5-turbo">>
MODEL_SERVER_NAME == "model_server"
ARC_FC_CLUSTER == "curve_fc"
SYSTEM_ROLE == "system"
USER_ROLE == "user"
ASSISTANT_ROLE == "assistant"
CURVE_ROUTING_HEADER == "x-curve-llm-provider"
RATELIMIT_SELECTOR_HEADER_KEY == "x-curve-ratelimit-selector"
PROVIDER_HINT_HEADER == "x-curve -deterministic-provider"
DefaultJailbreakMessage == "Jailbreak detected. Please refrain from discussing jailbreaking."

\* ResponseHandlerType
GetEmbeddings == "GetEmbeddings"
FunctionResolver == "FunctionResolver"
FunctionCall == "FunctionCall"
ZeroShotIntent == "ZeroShotIntent"
CurveGuard == "CurveGuard"

\* A body that is not JSON of the expected type, and bytes that are not UTF-8.
Garbage == "garbage"
NonUtf8 == "non-utf8"

\* ------------------------------------------------------------- providers
OpenAI == [name |-> "openai", api_key_header |-> "x-curve-openai-api-key",
           model |-> <<"gpt-4o">>]
Mistral == [name |-> "mistral", api_key_header |-> "x-curve-mistral-api-key",
            model |-> <<"mistral-", "large">>]
LlmProvidersVariants == {OpenAI, Mistral}

\* routing::get_llm_provider: the hint header selects the deterministic
\* provider, its absence the configured default.
get_llm_provider(provider_hint) == IF provider_hint THEN OpenAI ELSE Mistral

choose_model(provider) == provider.model

\* -------------------------------------------------------- prompt targets
\* The configured catalog: a target with an endpoint and a system prompt, one
\* with a GET endpoint and no system prompt, one with no endpoint at all.
PromptTargets ==
    [weather |-> [name |-> "weather",
                  endpoint |-> Some([name |-> "weather_api", path |-> Some("/weather"), method |-> None]),
                  system_prompt |-> Some("You are a weather reporter.")],
     news    |-> [name |-> "news",
                  endpoint |-> Some([name |-> "news_api", path |-> None, method |-> Some("GET")]),
                  system_prompt |-> None],
     chat    |-> [name |-> "chat", endpoint |-> None, system_prompt |-> None]]

PromptTargetNames == DOMAIN PromptTargets

\* embeddings_store(): the published Description embedding of every target.
EmbeddingsStore ==
    [weather |-> [Description |-> <<3, 4>>],
     news    |-> [Description |-> <<0, 1>>],
     chat    |-> [Description |-> <<4, 3>>]]

\* ----------------------------------------------------------------- strings
starts_with(s, prefix) ==
    /\ Len(s) >= Len(prefix)
    /\ SubSeq(s, 1, Len(prefix)) = prefix

\* ------------------------------------------------------------------ cosine
Dot(u, v) == LET n == IF Len(u) < Len(v) THEN Len(u) ELSE Len(v)
                 F[i \in 0..n] == IF i = 0 THEN 0 ELSE F[i - 1] + u[i] * v[i]
             IN F[n]

\* The vectors of the model have integral norms.
Norm(u) == CHOOSE n \in 0..Dot(u, u) : n * n = Dot(u, u)

\* acap::cos::cosine_similarity, in hundredths.
cosine_similarity(u, v) == (100 * Dot(u, v)) \div (Norm(u) * Norm(v))

\* ---------------------------------------------------- chat-completions JSON
\* A request body on the wire: [kind |-> "empty"], [kind |-> "garbage"], or
\* [kind |-> "json", json |-> j] where every field of j is an Option (None:
\* the field is not in the JSON text).
EmptyBody == [kind |-> "empty"]
GarbageBody == [kind |-> Garbage]
JsonBody(j) == [kind |-> "json", json |-> j]

\* Mutant: messages is #[serde(default)] too.
from_slice_default_messages(bytes) ==
    IF bytes.kind # "json" THEN None
    ELSE Some([model          |-> unwrap_or(bytes.json.model, <<>>),
               messages       |-> unwrap_or(bytes.json.messages, <<>>),
               tools          |-> bytes.json.tools,
               stream         |-> unwrap_or(bytes.json.stream, FALSE),
               stream_options |-> bytes.json.stream_options])

\* serde_json::from_slice::<ChatCompletionsRequest>: messages is required,
\* model and stream are #[serde(default)].  None is the Err result.
from_slice(bytes) ==
    IF bytes.kind # "json" THEN None
    ELSE IF is_none(bytes.json.messages) THEN None
    ELSE Some([model          |-> unwrap_or(bytes.json.model, <<>>),
               messages       |-> unwrap(bytes.json.messages),
               tools          |-> bytes.json.tools,
               stream         |-> unwrap_or(bytes.json.stream, FALSE),
               stream_options |-> bytes.json.stream_options])

\* serde_json::to_string(&ChatCompletionsRequest): tools and stream_options
\* are skipped when None, model and stream are always written.
to_string(request) ==
    JsonBody([model          |-> Some(request.model),
              messages       |-> Some(request.messages),
              tools          |-> request.tools,
              stream         |-> Some(request.stream),
              stream_options |-> request.stream_options])

Message(role, content, model) ==
    [role |-> role, content |-> content, model |-> model, tool_calls |-> None]

\* ------------------------------------------------------------- host calls
\* What the filter asks of the host, in the order it asks.
send_http_response(status, body) == [op |-> "send", status |-> status, body |-> body]

resume_http_request == [op |-> "resume"]

set_http_request_body(bytes) == [op |-> "set_body", body |-> bytes]

\* ok: whether the host accepted the call (Ok(token_id)) or rejected it.
dispatch_http_call(kind, cluster, path, method, body, ok) ==
    [op |-> "dispatch", kind |-> kind, cluster |-> cluster, path |-> path,
     method |-> method, body |-> body, ok |-> ok]

check_limit(model, selector, allowed) ==
    [op |-> "check_limit", model |-> model, selector |-> selector, allowed |-> allowed]

ErrorBody(text) == [text |-> text]

\* Mutant: the override is ignored, every error is a 500.
send_server_error_no_override(error, override_status_code) ==
    send_http_response(500, error)

send_server_error(error, override_status_code) ==
    send_http_response(unwrap_or(override_status_code, 500), error)

\* ---------------------------------------------------------------- effects
\* What one handler run does: the host calls it makes, the CallContext it
\* inserts under the token the host returned, the metric changes, whether it
\* takes the rate-limit selector, whether it panics.
Effect(calls, insert, gauge) ==
    [calls |-> calls, insert |-> insert, gauge |-> gauge, ratelimited |-> 0,
     take |-> FALSE, panic |-> FALSE]

Calls(calls) == Effect(calls, None, 0)

Fatal == [Calls(<<>>) EXCEPT !.panic = TRUE]

CallContext(handler, user_message, request_body) ==
    [response_handler_type   |-> handler,
     user_message            |-> user_message,
     prompt_target_name      |-> None,
     request_body            |-> request_body,
     similarity_scores       |-> None,
     up_stream_cluster       |-> None,
     up_stream_cluster_path  |-> None]

\* ------------------------------------------------------------ get_embeddings
get_embeddings(callout_context, ok) ==
    LET user_message == unwrap(callout_context.user_message)
        call == dispatch_http_call("embedding", MODEL_SERVER_NAME, "/embeddings", "POST",
                                   Some([input |-> user_message]), ok)
    IN  IF ~ok
        THEN Calls(<<call, send_server_error(
                 ErrorBody("dispatched call to server/embeddings"), None)>>)
        ELSE Effect(<<call>>,
                    Some(CallContext(GetEmbeddings, Some(user_message),
                                     callout_context.request_body)),
                    0)

\* -------------------------------------------------------- embeddings_handler
\* The description similarity of every prompt target; a target with no entry
\* in the store is compared with the vector [0.0].
similarity_scores(embeddings_vector) ==
    [prompt_name \in PromptTargetNames |->
        LET description_embeddings ==
                IF prompt_name \in DOMAIN EmbeddingsStore
                THEN EmbeddingsStore[prompt_name].Description
                ELSE <<0>>
        IN  cosine_similarity(embeddings_vector, description_embeddings)]

embeddings_handler(body, callout_context, ok) ==
    IF body.kind # "json"
    THEN Calls(<<send_server_error(ErrorBody("Error deserializing embedding response"), None)>>)
    ELSE IF body.data = <<>>
    THEN Fatal
    ELSE
    LET embeddings_vector == body.data[1]
        call == dispatch_http_call("zeroshot", MODEL_SERVER_NAME, "/zeroshot", "POST",
                    Some([input  |-> unwrap(callout_context.user_message),
                          labels |-> PromptTargetNames]), ok)
    IN  IF ~ok
        THEN Calls(<<call, send_server_error(ErrorBody(
                 "Error dispatching embedding server HTTP call for zero-shot-intent-detection"),
                 None)>>)
        ELSE Effect(<<call>>,
                    Some([callout_context EXCEPT
                            !.similarity_scores = Some(similarity_scores(embeddings_vector)),
                            !.response_handler_type = ZeroShotIntent]),
                    1)

\* ------------------------------------- zero_shot_intent_detection_resp_handler
\* In tenths of hundredths: 0.7 * predicted_class_score + 0.3 * similarity.
prompt_target_similarity_score(predicted_class_score, pred_class_desc_emb_similarity) ==
    predicted_class_score * 7 + pred_class_desc_emb_similarity * 3

\* Whether the second-to-last message comes from a "Curve" model.
curve_assistant(messages) ==
    IF Len(messages) >= 2
    THEN LET latest_assistant_message == messages[Len(messages) - 1]
         IN  /\ is_some(latest_assistant_message.model)
             /\ starts_with(unwrap(latest_assistant_message.model), <<"Curve">>)
    ELSE FALSE

prompt_target_intent_matching_threshold(overrides) ==
    IF is_some(overrides)
    THEN unwrap_or(unwrap(overrides).prompt_target_intent_matching_threshold,
                   DEFAULT_PROMPT_TARGET_THRESHOLD)
    ELSE DEFAULT_PROMPT_TARGET_THRESHOLD

\* Mutant: a score equal to the threshold counts as below it.
below_threshold_inclusive(score, threshold, is_curve_assistant) ==
    score <= threshold * 10 /\ ~is_curve_assistant

\* The test that sends the request upstream without a function-resolver call.
below_threshold(score, threshold, is_curve_assistant) ==
    score < threshold * 10 /\ ~is_curve_assistant

\* Every prompt target is advertised as a tool.
chat_completion_tools == {PromptTargets[n].name : n \in PromptTargetNames}

resolver_dispatch(callout_context, prompt_target, ok) ==
    LET chat_completions == [model          |-> GPT_35_TURBO,
                             messages       |-> callout_context.request_body.messages,
                             tools          |-> Some(chat_completion_tools),
                             stream         |-> FALSE,
                             stream_options |-> None]
        call == dispatch_http_call("resolver", ARC_FC_CLUSTER, "/v1/chat/completions",
                                   "POST", Some(to_string(chat_completions)), ok)
    IN  IF ~ok
        THEN Calls(<<call, send_server_error(
                 ErrorBody("Error dispatching HTTP call for function-call"), Some(400))>>)
        ELSE Effect(<<call>>,
                    Some([callout_context EXCEPT
                            !.response_handler_type = FunctionResolver,
                            !.prompt_target_name = Some(prompt_target.name)]),
                    1)

\* Mutant: the return after resume_http_request is missing.
passthrough_fallthrough(callout_context, prompt_target, ok) ==
    LET rest == resolver_dispatch(callout_context, prompt_target, ok)
    IN  [rest EXCEPT !.calls = <<resume_http_request>> \o @]

\* Mutant: the parsed request is written back without its tools.
passthrough_rewrite(callout_context, prompt_target, ok) ==
    Calls(<<set_http_request_body(to_string([callout_context.request_body
                                                EXCEPT !.tools = None])),
            resume_http_request>>)

\* The branch taken when the score is below the threshold.
passthrough(callout_context, prompt_target, ok) == Calls(<<resume_http_request>>)

zero_shot_intent_detection_resp_handler(body, callout_context, overrides, ok) ==
    IF body.kind # "json"
    THEN Calls(<<send_server_error(
             ErrorBody("Error deserializing zeroshot intent detection response"), None)>>)
    ELSE
    LET desc_emb_similarity_map == unwrap(callout_context.similarity_scores)
    IN  IF body.predicted_class \notin DOMAIN desc_emb_similarity_map
        THEN Fatal
        ELSE
        LET score == prompt_target_similarity_score(
                         body.predicted_class_score,
                         desc_emb_similarity_map[body.predicted_class])
            prompt_target_name == body.predicted_class
        IN  IF below_threshold(score, prompt_target_intent_matching_threshold(overrides),
                               curve_assistant(callout_context.request_body.messages))
            THEN passthrough(callout_context, PromptTargets[prompt_target_name], ok)
            ELSE IF prompt_target_name \notin PromptTargetNames
            THEN Fatal
            ELSE resolver_dispatch(callout_context, PromptTargets[prompt_target_name], ok)

\* ------------------------------------------------- function_resolver_handler
\* The path and body of the tool call: with Method::Post the arguments are
\* appended to the path as a query string and also sent as the body; with
\* any other method there is no query string and no body.
tool_call_path(endpoint, tool_params) ==
    LET path == unwrap_or(endpoint.path, "/")
        method == unwrap_or(endpoint.method, "POST")
    IN  IF method = "POST"
        THEN [path |-> path, query |-> Some(tool_params)]
        ELSE [path |-> path, query |-> None]

tool_call_body(endpoint, tool_params) ==
    IF unwrap_or(endpoint.method, "POST") = "POST" THEN Some(tool_params) ELSE None

\* Mutant: the last tool call is acted on.
selected_tool_call_last(tool_calls) == tool_calls[Len(tool_calls)]

\* The tool call that is acted on, of the tool calls the resolver listed.
selected_tool_call(tool_calls) == tool_calls[1]

\* Mutant: the reply to the client loses the resolver's body.
dialogue_response_no_body(body_str) ==
    Calls(<<send_http_response(200, ErrorBody(""))>>)

\* The resolver asked for more information: its reply goes to the client.
dialogue_response(body_str) == Calls(<<send_http_response(200, body_str)>>)

function_resolver_handler(body, callout_context, ok) ==
    IF body.kind = NonUtf8
    THEN Fatal
    ELSE IF body.kind # "json"
    THEN Calls(<<send_server_error(ErrorBody(
             "Error deserializing function resolver response into ChatCompletion"), None)>>)
    ELSE IF body.choices = <<>>
    THEN Fatal
    ELSE
    LET model_resp == body.choices[1]
    IN  IF is_none(model_resp.message.tool_calls)
        THEN dialogue_response(body)
        ELSE
        LET tool_calls == unwrap(model_resp.message.tool_calls)
        IN  IF tool_calls = <<>>
            THEN Calls(<<send_server_error(
                     ErrorBody("No tool calls found in function resolver response"),
                     Some(400))>>)
            ELSE
            LET tool_params == selected_tool_call(tool_calls).function.arguments
                tools_call_name == selected_tool_call(tool_calls).function.name
            IN  IF tools_call_name \notin PromptTargetNames
                THEN Fatal
                ELSE IF is_none(PromptTargets[tools_call_name].endpoint)
                THEN Fatal
                ELSE
                LET endpoint == unwrap(PromptTargets[tools_call_name].endpoint)
                    path == tool_call_path(endpoint, tool_params)
                    call == dispatch_http_call("tool", endpoint.name, path,
                                unwrap_or(endpoint.method, "POST"),
                                tool_call_body(endpoint, tool_params), ok)
                IN  IF ~ok
                    THEN Calls(<<call, send_server_error(
                             [text    |-> "Error dispatching call to cluster",
                              cluster |-> endpoint.name, path |-> path],
                             Some(400))>>)
                    ELSE Effect(<<call>>,
                                Some([callout_context EXCEPT
                                        !.up_stream_cluster = Some(endpoint.name),
                                        !.up_stream_cluster_path = Some(path),
                                        !.response_handler_type = FunctionCall]),
                                1)

\* -------------------------------------------- function_call_response_handler
\* Whether the :status of the tool reply lets the handler go on.
tool_status_ok(http_status) == http_status = "200"

\* Mutant: the system prompt is put in front of the conversation.
synthesized_messages_system_first(callout_context, prompt_target, body_str) ==
    LET original == callout_context.request_body.messages
        with_system ==
            IF is_none(prompt_target.system_prompt)
            THEN original
            ELSE <<Message(SYSTEM_ROLE, Some(unwrap(prompt_target.system_prompt)), None)>>
                     \o original
        with_data == Append(with_system, Message(USER_ROLE, Some(body_str), None))
    IN  Append(with_data, Message(USER_ROLE, Some(unwrap(callout_context.user_message)), None))

\* The messages of the request that goes upstream after the tool replied.
synthesized_messages(callout_context, prompt_target, body_str) ==
    LET original == callout_context.request_body.messages
        with_system ==
            IF is_none(prompt_target.system_prompt)
            THEN original
            ELSE Append(original,
                        Message(SYSTEM_ROLE, Some(unwrap(prompt_target.system_prompt)), None))
        with_data == Append(with_system, Message(USER_ROLE, Some(body_str), None))
    IN  Append(with_data, Message(USER_ROLE, Some(unwrap(callout_context.user_message)), None))

synthesized_request(callout_context, messages) ==
    [model          |-> callout_context.request_body.model,
     messages       |-> messages,
     tools          |-> None,
     stream         |-> callout_context.request_body.stream,
     stream_options |-> callout_context.request_body.stream_options]

\* Mutant: the limiter is asked even when tokenization failed.
gate_consulted_without_tokens(ratelimit_selector, gate) == is_some(ratelimit_selector)

\* The limiter is asked when a selector was saved and tokenization succeeds.
gate_consulted(ratelimit_selector, gate) ==
    is_some(ratelimit_selector) /\ is_some(gate.tokens)

\* Mutant: the return after the 429 is missing.
ratelimit_exceeded_no_return(check, forward) ==
    [Calls(<<check, send_server_error(ErrorBody("Exceeded Ratelimit"), Some(429))>>
           \o forward)
        EXCEPT !.take = TRUE, !.ratelimited = 1]

\* The limiter refused: a 429, and ratelimited_rq counts the request.
ratelimit_exceeded(check, forward) ==
    [Calls(<<check, send_server_error(ErrorBody("Exceeded Ratelimit"), Some(429))>>)
        EXCEPT !.take = TRUE, !.ratelimited = 1]

\* gate: [tokens, allowed], what tokenizer::token_count and the limiter
\* answer if they are asked (tokens is None when tokenization fails).
function_call_response_handler(body, http_status, callout_context, ratelimit_selector, gate) ==
    IF is_some(http_status) /\ ~tool_status_ok(unwrap(http_status))
    THEN Calls(<<send_server_error(
             [text    |-> "Error in function call response",
              cluster |-> unwrap(callout_context.up_stream_cluster),
              path    |-> unwrap(callout_context.up_stream_cluster_path),
              status  |-> unwrap(http_status)],
             Some(400))>>)
    ELSE IF body.kind = NonUtf8
    THEN Fatal
    ELSE
    LET body_str == body.text
        prompt_target == PromptTargets[unwrap(callout_context.prompt_target_name)]
        request == synthesized_request(callout_context,
                       synthesized_messages(callout_context, prompt_target, body_str))
        json_string == to_string(request)
        forward == <<set_http_request_body(json_string), resume_http_request>>
    IN  IF ~gate_consulted(ratelimit_selector, gate)
        THEN [Calls(forward) EXCEPT !.take = TRUE]
        ELSE
        LET check == check_limit(request.model, unwrap(ratelimit_selector), gate.allowed)
        IN  IF gate.allowed
            THEN [Calls(<<check>> \o forward) EXCEPT !.take = TRUE]
            ELSE ratelimit_exceeded(check, forward)

\* --------------------------------------------------------- curve_guard_handler
\* Mutant: the configured message is not looked up.
jailbreak_error_msg_default(prompt_guards) == DefaultJailbreakMessage

\* The body of the 400 sent when the guard reports a jailbreak.
jailbreak_error_msg(prompt_guards) ==
    IF is_none(prompt_guards) THEN DefaultJailbreakMessage
    ELSE IF is_none(unwrap(prompt_guards).input_guards.jailbreak) THEN DefaultJailbreakMessage
    ELSE LET jailbreak == unwrap(unwrap(prompt_guards).input_guards.jailbreak)
         IN  IF is_none(jailbreak.on_exception) THEN DefaultJailbreakMessage
             ELSE unwrap_or(unwrap(jailbreak.on_exception).message, DefaultJailbreakMessage)

jailbreak_detected(prompt_guard_resp) ==
    /\ is_some(prompt_guard_resp.jailbreak_verdict)
    /\ unwrap(prompt_guard_resp.jailbreak_verdict)

curve_guard_handler(body, callout_context, prompt_guards, ok) ==
    IF body.kind # "json"
    THEN Fatal
    ELSE IF jailbreak_detected(body)
    THEN Calls(<<send_server_error(ErrorBody(jailbreak_error_msg(prompt_guards)), Some(400))>>)
    ELSE get_embeddings(callout_context, ok)

\* ------------------------------------------------------- on_http_request_body
\* The result of a request-body callback: the effect, the Action returned to
\* the host, and the new value of streaming_response (None: not assigned).
BodyResult(effect, action, streaming) ==
    [effect |-> effect, action |-> action, streaming_response |-> streaming]

\* The stream_options the body stage leaves in the parsed request.
normalized_stream_options(deserialized_body) ==
    IF deserialized_body.stream /\ is_none(deserialized_body.stream_options)
    THEN Some([include_usage |-> TRUE])
    ELSE deserialized_body.stream_options

\* The model the body stage writes into the parsed request.
normalized_model(deserialized_body, provider) == choose_model(provider)

\* Mutant: any guards object counts as a Jailbreak guard.
has_prompt_guards(prompt_guards) == is_some(prompt_guards)

has_jailbreak_guard(prompt_guards) ==
    /\ is_some(prompt_guards)
    /\ is_some(unwrap(prompt_guards).input_guards.jailbreak)

\* Mutant: a last message without content counts as an empty user message.
last_content_or_empty(messages) ==
    IF messages = <<>> THEN None
    ELSE IF is_none(messages[Len(messages)].content) THEN Some("")
    ELSE messages[Len(messages)].content

\* messages.last().and_then(|last_message| last_message.content.clone())
last_content(messages) ==
    IF messages = <<>> THEN None ELSE messages[Len(messages)].content

\* bytes: what get_http_request_body returns (None, or Some of the buffer).
on_http_request_body(buffer, bytes, end_of_stream, provider, prompt_guards, ok) ==
    IF ~end_of_stream THEN BodyResult(Calls(<<>>), "Pause", None)
    ELSE IF buffer.kind = "empty" THEN BodyResult(Calls(<<>>), "Continue", None)
    ELSE IF is_none(bytes)
    THEN BodyResult(Calls(<<send_server_error(
             ErrorBody("Failed to obtain body bytes"), None)>>), "Pause", None)
    ELSE IF is_none(from_slice(unwrap(bytes)))
    THEN BodyResult(Calls(<<send_server_error(
             ErrorBody("Failed to deserialize"), Some(400))>>), "Pause", None)
    ELSE
    LET parsed == unwrap(from_slice(unwrap(bytes)))
        deserialized_body ==
            [parsed EXCEPT !.model = normalized_model(parsed, provider),
                           !.stream_options = normalized_stream_options(parsed)]
        streaming == Some(parsed.stream)
        messages == deserialized_body.messages
        user_message == last_content(messages)
    IN  IF is_none(user_message)
        THEN BodyResult(Calls(<<>>), "Continue", streaming)
        ELSE
        LET callout_context == CallContext(CurveGuard, user_message, deserialized_body)
        IN  IF ~has_jailbreak_guard(prompt_guards)
            THEN BodyResult(get_embeddings(callout_context, ok), "Pause", streaming)
            ELSE
            LET call == dispatch_http_call("guard", MODEL_SERVER_NAME, "/guard", "POST",
                            Some([input |-> unwrap(user_message), task |-> "jailbreak"]), ok)
            IN  IF ~ok
                THEN BodyResult(Calls(<<call, send_server_error(ErrorBody(
                         "Error dispatching embedding server HTTP call for prompt-guard"),
                         None)>>), "Pause", streaming)
                ELSE BodyResult(Effect(<<call>>, Some(callout_context), 1), "Pause", streaming)

\* ---------------------------------------------------- on_http_request_headers
HeaderNames ==
    {PROVIDER_HINT_HEADER, OpenAI.api_key_header, Mistral.api_key_header,
     "authorization", "content-length", CURVE_ROUTING_HEADER,
     RATELIMIT_SELECTOR_HEADER_KEY, "x-user-id"}

\* A header map gives every name the sequence of its values (<<>>: absent).
get_http_request_header(headers, name) ==
    IF name \in DOMAIN headers /\ headers[name] # <<>> THEN Some(headers[name][1]) ELSE None

add_http_request_header(headers, name, value) ==
    [headers EXCEPT ![name] = Append(@, value)]

set_http_request_header(headers, name, value) ==
    [headers EXCEPT ![name] = value]

add_routing_header(headers, provider) ==
    add_http_request_header(headers, CURVE_ROUTING_HEADER, provider.name)

\* Ok: the headers with Authorization set and every api key header removed.
\* Err (the api key of the provider is missing): the headers as they were.
\* format!("Bearer {}", value), for the api key values of the model.
Bearer(value) ==
    CASE value = "sk-openai" -> "Bearer sk-openai"
      [] value = "sk-mistral" -> "Bearer sk-mistral"
      [] OTHER -> "Bearer"

modify_auth_headers_ok(headers, provider) ==
    is_some(get_http_request_header(headers, provider.api_key_header))

modify_auth_headers(headers, provider) ==
    IF ~modify_auth_headers_ok(headers, provider)
    THEN headers
    ELSE LET llm_provider_api_key_value ==
                 unwrap(get_http_request_header(headers, provider.api_key_header))
             with_auth == set_http_request_header(headers, "authorization",
                              Some(Bearer(llm_provider_api_key_value)))
         IN  [name \in DOMAIN with_auth |->
                 IF \E p \in LlmProvidersVariants : p.api_key_header = name
                 THEN None
                 ELSE with_auth[name]]

delete_content_length_header(headers) ==
    set_http_request_header(headers, "content-length", None)

save_ratelimit_header(headers) ==
    LET key == get_http_request_header(headers, RATELIMIT_SELECTOR_HEADER_KEY)
    IN  IF is_none(key) THEN None
        ELSE IF is_none(get_http_request_header(headers, unwrap(key))) THEN None
        ELSE Some([key   |-> unwrap(key),
                   value |-> unwrap(get_http_request_header(headers, unwrap(key)))])

\* ------------------------------------------------- FilterContext::on_configure
\* PromptGuards::default(): no input guards.
DefaultPromptGuards == [input_guards |-> [jailbreak |-> None]]

\* The prompt_guards and overrides every StreamContext is created with: the
\* filter starts with the default guards and no overrides, and on_configure
\* takes the overrides of the configuration, and its guards when it has any.
on_configure(configuration) ==
    [overrides     |-> configuration.overrides,
     prompt_guards |-> IF is_some(configuration.prompt_guards)
                       THEN configuration.prompt_guards
                       ELSE Some(DefaultPromptGuards)]

\* ================================================================== state
VARIABLES
    configuration,        \* the plugin configuration on_configure read
    prompt_guards,        \* Rc<Option<PromptGuards>>, fixed at configuration
    overrides,            \* Rc<Option<Overrides>>, fixed at configuration
    req_headers,          \* the request headers the host holds
    req_body,             \* the request body the host holds (and forwards)
    stage,                \* where the host is with the request
    llm_provider,         \* StreamContext.llm_provider
    ratelimit_selector,   \* StreamContext.ratelimit_selector
    streaming_response,   \* StreamContext.streaming_response
    callouts,             \* StreamContext.callouts, a set of [token_id, context]
    active_http_calls,    \* metrics.active_http_calls
    ratelimited_rq,       \* metrics.ratelimited_rq
    next_token_id,        \* the token the host returns for the next accepted call
    hostcalls,            \* every host call the filter made, in order
    last,                 \* the callback delivered last, with what it was given
    inbound,              \* the request as the client sent it
    chat_completions_request, \* StreamContext.chat_completions_request
    response_tokens,      \* StreamContext.response_tokens
    delivered,            \* the response chunks the host delivered, in order
    current,              \* the context_id of the StreamContext the fields above belong to
    other,                \* the fields of the other StreamContext in flight, if any
    host_header           \* StreamContext.host_header of the legacy filter (envoyfilter)

\* The root context (prompt_gateway/src/filter_context.rs; curve/src/filter_context.rs
\* has the same fields but for the stores, and the static EMBEDDINGS instead).
VARIABLES
    root,                 \* where the host is with the root context's life cycle
    prompt_targets,       \* FilterContext.prompt_targets, the names it is keyed by
    tick_period,          \* the tick period the filter asked for last, in seconds
    ticks,                \* how many times on_tick was delivered
    root_callouts,        \* FilterContext.callouts, a set of [token_id, context]
    root_active_calls,    \* the root context's metrics.active_http_calls
    root_next_token,      \* the token the host returns for the next accepted call
    temp_embeddings_store,\* FilterContext.temp_embeddings_store, a set of entries
    embeddings_store,     \* FilterContext.embeddings_store, an Option of a set of entries
    received,             \* the (name, kind) pairs an embedding was stored for so far
    http_contexts,        \* what create_http_context returned, with what was received then
    root_last,            \* the root callback delivered last, with what it was given
    EMBEDDINGS            \* the static store behind curve's embeddings_store(), a set of entries

response == <<chat_completions_request, response_tokens, delivered>>

streamvars == <<configuration, prompt_guards, overrides, req_headers, req_body, stage,
                llm_provider, ratelimit_selector, streaming_response, callouts,
                active_http_calls, ratelimited_rq, next_token_id, hostcalls, last, inbound,
                response, current, other, host_header>>

rootvars == <<root, prompt_targets, tick_period, ticks, root_callouts, root_active_calls,
              root_next_token, temp_embeddings_store, embeddings_store, received,
              http_contexts, root_last, EMBEDDINGS>>

vars == <<streamvars, rootvars>>

\* What no callback of a request changes.
shared == <<configuration, prompt_guards, overrides, inbound, rootvars, current, other>>

\* What no callback of a curve request changes.
config == <<shared, host_header>>

\* FilterContext::new: the published store starts as Some(empty map).
FilterContextNew ==
    /\ root = "new"
    /\ prompt_targets = {}
    /\ tick_period = 0
    /\ ticks = 0
    /\ root_callouts = {}
    /\ root_active_calls = 0
    /\ root_next_token = 1
    /\ temp_embeddings_store = {}
    /\ embeddings_store = Some({})
    /\ received = {}
    /\ http_contexts = {}
    /\ root_last = [callback |-> "new"]
    /\ EMBEDDINGS = {}

\* The host calls of one kind a handler run made.
Ops(calls, op) == {i \in DOMAIN calls : calls[i].op = op}

\* The request body after the set_http_request_body calls of a handler run.
body_after(calls, body) ==
    IF Ops(calls, "set_body") = {} THEN body
    ELSE calls[CHOOSE i \in Ops(calls, "set_body") :
                   \A j \in Ops(calls, "set_body") : j <= i].body

\* The host calls of a handler run change the host's view of the request,
\* the CallContext goes into callouts under the token of the accepted call,
\* and a panic ends the request.
Apply(effect, remaining, stage_after) ==
    /\ hostcalls' = hostcalls \o effect.calls
    /\ req_body' = body_after(effect.calls, req_body)
    /\ active_http_calls' = active_http_calls + effect.gauge
    /\ ratelimited_rq' = ratelimited_rq + effect.ratelimited
    /\ IF is_some(effect.insert)
       THEN /\ next_token_id' = next_token_id + 1
            /\ IF \E c \in remaining : c.token_id = next_token_id
               THEN /\ callouts' = {c \in remaining : c.token_id # next_token_id} \cup
                            {[token_id |-> next_token_id, context |-> unwrap(effect.insert)]}
                    /\ stage' = "aborted"
               ELSE /\ callouts' = remaining \cup
                            {[token_id |-> next_token_id, context |-> unwrap(effect.insert)]}
                    /\ stage' = stage_after
       ELSE /\ next_token_id' = next_token_id
            /\ callouts' = remaining
            /\ stage' = IF effect.panic THEN "aborted"
                        ELSE IF Ops(effect.calls, "resume") # {} THEN "forwarded"
                        ELSE stage_after

\* ---------------------------------------------------------------- actions
OnHttpRequestHeaders ==
    /\ stage = "headers"
    /\ LET provider_hint == is_some(get_http_request_header(req_headers, PROVIDER_HINT_HEADER))
           provider == get_llm_provider(provider_hint)
           routed == add_routing_header(req_headers, provider)
           effect == IF modify_auth_headers_ok(routed, provider)
                     THEN Calls(<<>>)
                     ELSE Calls(<<send_server_error(ErrorBody("missing api key"), Some(400))>>)
           authed == modify_auth_headers(routed, provider)
           trimmed == delete_content_length_header(authed)
       IN  /\ llm_provider' = Some(provider)
           /\ req_headers' = trimmed
           /\ Apply(effect, callouts, "body")
           /\ ratelimit_selector' = save_ratelimit_header(trimmed)
           /\ last' = [callback |-> "on_http_request_headers", action |-> "Continue"]
    /\ UNCHANGED <<config, response, streaming_response>>

OnHttpRequestBody(end_of_stream, bytes_available, ok) ==
    /\ stage = "body"
    /\ LET result == on_http_request_body(req_body,
                         IF bytes_available THEN Some(req_body) ELSE None,
                         end_of_stream, unwrap(llm_provider), prompt_guards, ok)
       IN  /\ Apply(result.effect, callouts,
                    IF result.action = "Continue" THEN "forwarded"
                    ELSE IF end_of_stream THEN "paused" ELSE "body")
           /\ streaming_response' = unwrap_or(result.streaming_response, streaming_response)
           /\ last' = [callback |-> "on_http_request_body", end_of_stream |-> end_of_stream,
                       bytes_available |-> bytes_available, action |-> result.action]
    /\ UNCHANGED <<config, response, req_headers, llm_provider, ratelimit_selector>>

\* Mutant: the CallContext of the token stays in callouts.
on_http_call_response_keep(entry, reply, handler_effect) ==
    /\ stage = "paused"
    /\ entry \in callouts
    /\ LET effect == IF is_none(reply.body)
                     THEN Calls(<<send_server_error(
                              ErrorBody("No response body in inline HTTP request"), None)>>)
                     ELSE handler_effect
       IN  /\ Apply([effect EXCEPT !.gauge = @ - 1], callouts, "paused")
           /\ ratelimit_selector' = IF effect.take THEN None ELSE ratelimit_selector
    /\ last' = [callback |-> "on_http_call_response", token_id |-> entry.token_id,
                context |-> entry.context, reply |-> reply]
    /\ UNCHANGED <<config, response, req_headers, llm_provider, streaming_response>>

\* Context::on_http_call_response: the CallContext of the token is removed,
\* the gauge decremented, and the handler of its type run on the reply body;
\* a reply without a body ends the request with a 500.
on_http_call_response(entry, reply, handler_effect) ==
    /\ stage = "paused"
    /\ entry \in callouts
    /\ LET effect == IF is_none(reply.body)
                     THEN Calls(<<send_server_error(
                              ErrorBody("No response body in inline HTTP request"), None)>>)
                     ELSE handler_effect
       IN  /\ Apply([effect EXCEPT !.gauge = @ - 1], callouts \ {entry}, "paused")
           /\ ratelimit_selector' = IF effect.take THEN None ELSE ratelimit_selector
    /\ last' = [callback |-> "on_http_call_response", token_id |-> entry.token_id,
                context |-> entry.context, reply |-> reply]
    /\ UNCHANGED <<config, response, req_headers, llm_provider, streaming_response>>

\* ----------------------------------------------------------------- replies
GarbageReply == [kind |-> Garbage]

GuardReplies ==
    {[body |-> None], [body |-> Some(GarbageReply)]}
    \cup {[body |-> Some([kind |-> "json", jailbreak_verdict |-> v])] :
            v \in {None, Some(TRUE), Some(FALSE)}}

EmbeddingVectors == {<<1, 0>>, <<3, 4>>}

EmbeddingReplies ==
    {[body |-> None], [body |-> Some(GarbageReply)],
     [body |-> Some([kind |-> "json", data |-> <<>>])]}
    \cup {[body |-> Some([kind |-> "json", data |-> <<v>>])] : v \in EmbeddingVectors}

ZeroShotScores == {20, 70, 90}

ZeroShotReplies ==
    {[body |-> None], [body |-> Some(GarbageReply)],
     [body |-> Some([kind |-> "json", predicted_class |-> "unknown",
                     predicted_class_score |-> 90])]}
    \cup {[body |-> Some([kind |-> "json", predicted_class |-> c,
                          predicted_class_score |-> x])] :
            c \in PromptTargetNames, x \in ZeroShotScores}

ToolCall(name) == [function |-> [name |-> name, arguments |-> [city |-> "Paris"]]]

\* Tool call lists of every length up to MaxToolCalls: any first tool call,
\* followed by calls of the news target.
ToolCallLists ==
    {[i \in 1..n |-> IF i = 1 THEN ToolCall(first) ELSE ToolCall("news")] :
        first \in PromptTargetNames \cup {"unknown"}, n \in 1..MaxToolCalls}

ResolverMessage(tool_calls) ==
    [kind |-> "json",
     choices |-> <<[message |-> [role |-> ASSISTANT_ROLE, content |-> Some("Which city?"),
                                  model |-> Some(<<"Curve", "-Function">>),
                                  tool_calls |-> tool_calls]]>>]

ResolverReplies ==
    {[body |-> None], [body |-> Some(GarbageReply)], [body |-> Some([kind |-> NonUtf8])],
     [body |-> Some([kind |-> "json", choices |-> <<>>])],
     [body |-> Some(ResolverMessage(None))],
     [body |-> Some(ResolverMessage(Some(<<>>)))]}
    \cup {[body |-> Some(ResolverMessage(Some(l)))] : l \in ToolCallLists}

ToolReplies ==
    {[body |-> None, status |-> Some("200")],
     [body |-> Some([kind |-> NonUtf8]), status |-> Some("200")]}
    \cup {[body |-> Some([kind |-> "text", text |-> "sunny"]), status |-> st] :
            st \in {None, Some("200"), Some("201"), Some("204"), Some("503")}}

\* What the tokenizer and the limiter answer when asked.
GateAnswers ==
    {[tokens |-> None, allowed |-> TRUE],
     [tokens |-> None, allowed |-> FALSE],
     [tokens |-> Some(7), allowed |-> TRUE],
     [tokens |-> Some(7), allowed |-> FALSE]}

Pending(handler) == {c \in callouts : c.context.response_handler_type = handler}

OnGuardReply ==
    \E entry \in Pending(CurveGuard), reply \in GuardReplies, ok \in BOOLEAN :
        on_http_call_response(entry, reply,
            curve_guard_handler(unwrap(reply.body), entry.context, prompt_guards, ok))

OnEmbeddingReply ==
    \E entry \in Pending(GetEmbeddings), reply \in EmbeddingReplies, ok \in BOOLEAN :
        on_http_call_response(entry, reply,
            embeddings_handler(unwrap(reply.body), entry.context, ok))

OnZeroShotReply ==
    \E entry \in Pending(ZeroShotIntent), reply \in ZeroShotReplies, ok \in BOOLEAN :
        on_http_call_response(entry, reply,
            zero_shot_intent_detection_resp_handler(unwrap(reply.body), entry.context,
                                                    overrides, ok))

OnResolverReply ==
    \E entry \in Pending(FunctionResolver), reply \in ResolverReplies, ok \in BOOLEAN :
        on_http_call_response(entry, reply,
            function_resolver_handler(unwrap(reply.body), entry.context, ok))

OnToolReply ==
    \E entry \in Pending(FunctionCall), reply \in ToolReplies, gate \in GateAnswers :
        on_http_call_response(entry, [body |-> reply.body, status |-> reply.status,
                                      gate |-> gate],
            function_call_response_handler(unwrap(reply.body), reply.status, entry.context,
                                           ratelimit_selector, gate))

\* ------------------------------------------------------------------ inputs
GuardOptions(on_exception) == [on_exception |-> on_exception]

\* No guards object; a guards object without a Jailbreak entry; a Jailbreak
\* entry without and with an on_exception message.
PromptGuardsChoices ==
    {None,
     Some([input_guards |-> [jailbreak |-> None]]),
     Some([input_guards |-> [jailbreak |-> Some(GuardOptions(None))]]),
     Some([input_guards |-> [jailbreak |-> Some(GuardOptions(Some([message |-> None])))]]),
     Some([input_guards |-> [jailbreak |->
              Some(GuardOptions(Some([message |-> Some("No jailbreaks here.")])))]])}

OverridesChoices ==
    {None,
     Some([prompt_target_intent_matching_threshold |-> None]),
     Some([prompt_target_intent_matching_threshold |-> Some(79)])}

UserHello == Message(USER_ROLE, Some("hello"), None)
CurveAsk == Message(ASSISTANT_ROLE, Some("Which city?"), Some(<<"Curve", "-Function">>))
ToolTurn == Message(ASSISTANT_ROLE, None, Some(<<"not-", "Curve">>))

MessageAlphabet == {UserHello, CurveAsk, ToolTurn}

MessageLists ==
    UNION {[1..n -> MessageAlphabet] : n \in 0..MaxMessages}

Headers(present) ==
    [name \in HeaderNames |-> IF name \in DOMAIN present THEN <<present[name]>> ELSE <<>>]

\* A request that carries every header the filter reads, and one that
\* carries only a content-length.
FullHeaders ==
    Headers([h \in HeaderNames \ {CURVE_ROUTING_HEADER, "authorization"} |->
        CASE h = OpenAI.api_key_header -> "sk-openai"
          [] h = Mistral.api_key_header -> "sk-mistral"
          [] h = RATELIMIT_SELECTOR_HEADER_KEY -> "x-user-id"
          [] h = "x-user-id" -> "alice"
          [] h = "content-length" -> "120"
          [] OTHER -> "true"])

BareHeaders == Headers([h \in {"content-length"} |-> "120"])

InboundHeaders == {FullHeaders, BareHeaders}

ChatCompletions(model, messages, tools, stream, stream_options) ==
    JsonBody([model |-> model, messages |-> messages, tools |-> tools,
              stream |-> stream, stream_options |-> stream_options])

\* Bodies whose messages vary: the orchestration does not read the rest.
InboundBodies ==
    {EmptyBody, GarbageBody, ChatCompletions(Some(<<"gpt-in">>), None, None, None, None)}
    \cup {ChatCompletions(Some(<<"gpt-in">>), Some(l), None, None, None) : l \in MessageLists}

InitWith(guards, thresholds, headers, bodies) ==
    /\ configuration \in [prompt_guards : guards, overrides : thresholds]
    /\ prompt_guards = on_configure(configuration).prompt_guards
    /\ overrides = on_configure(configuration).overrides
    /\ req_headers \in headers
    /\ req_body \in bodies
    /\ stage = "headers"
    /\ llm_provider = None
    /\ ratelimit_selector = None
    /\ streaming_response = FALSE
    /\ callouts = {}
    /\ active_http_calls = 0
    /\ ratelimited_rq = 0
    /\ next_token_id = 1
    /\ hostcalls = <<>>
    /\ last = [callback |-> "new"]
    /\ inbound = [headers |-> req_headers, body |-> req_body]
    /\ chat_completions_request = FALSE
    /\ response_tokens = 0
    /\ delivered = <<>>
    /\ current = 1
    /\ other = None
    /\ host_header = None
    /\ FilterContextNew

Init == InitWith(PromptGuardsChoices, OverridesChoices, InboundHeaders, InboundBodies)

\* Bodies whose model, tools, stream and stream_options vary, under one
\* configuration (a Jailbreak guard, the default threshold).
StreamChoices ==
    {[stream |-> None, stream_options |-> None],
     [stream |-> Some(FALSE), stream_options |-> None],
     [stream |-> Some(TRUE), stream_options |-> None],
     [stream |-> Some(TRUE), stream_options |-> Some([include_usage |-> FALSE])],
     [stream |-> Some(TRUE), stream_options |-> Some([include_usage |-> TRUE])]}

InboundBodyFields ==
    {ChatCompletions(model, Some(l), tools, s.stream, s.stream_options) :
        model \in {None, Some(<<"gpt-in">>)}, l \in MessageLists,
        tools \in {None, Some({"get_time"})}, s \in StreamChoices}

InitBody ==
    InitWith({Some([input_guards |-> [jailbreak |-> Some(GuardOptions(None))]])},
             {None}, InboundHeaders, InboundBodyFields)

\* Requests with every combination of the provider hint, the api key of
\* each provider and a client-supplied Authorization header, under one
\* configuration and with one body.
HeaderValue(h) ==
    CASE h = OpenAI.api_key_header -> "sk-openai"
      [] h = Mistral.api_key_header -> "sk-mistral"
      [] h = "authorization" -> "Bearer client"
      [] h = "content-length" -> "120"
      [] OTHER -> "true"

HeaderCombinations ==
    {Headers([h \in present \cup {"content-length"} |-> HeaderValue(h)]) :
        present \in SUBSET {PROVIDER_HINT_HEADER, OpenAI.api_key_header,
                            Mistral.api_key_header, "authorization"}}

InitHeaders ==
    InitWith({Some([input_guards |-> [jailbreak |-> Some(GuardOptions(None))]])},
             {None}, HeaderCombinations,
             {ChatCompletions(Some(<<"gpt-in">>), Some(<<UserHello>>), None, None, None)})

Next ==
    \/ OnHttpRequestHeaders
    \/ \E end_of_stream \in BOOLEAN, bytes_available \in BOOLEAN, ok \in BOOLEAN :
           OnHttpRequestBody(end_of_stream, bytes_available, ok)
    \/ OnGuardReply
    \/ OnEmbeddingReply
    \/ OnZeroShotReply
    \/ OnResolverReply
    \/ OnToolReply

Spec == Init /\ [][Next]_vars

SpecBody == InitBody /\ [][Next]_vars

SpecHeaders == InitHeaders /\ [][Next]_vars

\* Requests with a user message, asked first or after a question of the
\* function-resolver, with and without an api key, under every guard
\* configuration.
InitProgress ==
    InitWith(PromptGuardsChoices, {None}, InboundHeaders,
             {ChatCompletions(Some(<<"gpt-in">>), Some(l), None, None, None) :
                 l \in {<<UserHello>>, <<CurveAsk, UserHello>>}})

\* The host delivers the reply of every call it accepted.
SpecProgress ==
    /\ InitProgress
    /\ [][Next]_vars
    /\ WF_vars(OnGuardReply)
    /\ WF_vars(OnEmbeddingReply)
    /\ WF_vars(OnZeroShotReply)
    /\ WF_vars(OnResolverReply)
    /\ WF_vars(OnToolReply)

\* Context::on_http_call_response for a token that is not in callouts (never
\* inserted, or consumed by an earlier reply): the expect panics before the
\* gauge is touched and before any handler is chosen.
OnUnknownToken ==
    /\ stage # "aborted"
    /\ \E token_id \in 1..next_token_id :
          /\ \A c \in callouts : c.token_id # token_id
          /\ last' = [callback |-> "on_http_call_response", token_id |-> token_id,
                      context |-> None, reply |-> None, calls |-> Len(hostcalls),
                      gauge |-> active_http_calls]
    /\ stage' = "aborted"
    /\ UNCHANGED <<config, response, req_headers, req_body, llm_provider, ratelimit_selector,
                   streaming_response, callouts, active_http_calls, ratelimited_rq,
                   next_token_id, hostcalls>>

\* The request path under a host that may also deliver a reply for a token
\* the request does not hold.
NextTokens == Next \/ OnUnknownToken

SpecTokens == Init /\ [][NextTokens]_vars

\* ======================================================= requests in flight
\* Mutant: the new context starts with the token map of the context in flight.
StreamContextNewSharedCallouts(headers, body) ==
    [req_headers |-> headers, req_body |-> body, stage |-> "headers",
     llm_provider |-> None, ratelimit_selector |-> None, streaming_response |-> FALSE,
     callouts |-> callouts, hostcalls |-> <<>>, last |-> [callback |-> "new"],
     inbound |-> [headers |-> headers, body |-> body],
     chat_completions_request |-> FALSE, response_tokens |-> 0, delivered |-> <<>>]

\* StreamContext::new: the fields of a request context before its first callback.
StreamContextNew(headers, body) ==
    [req_headers |-> headers, req_body |-> body, stage |-> "headers",
     llm_provider |-> None, ratelimit_selector |-> None, streaming_response |-> FALSE,
     callouts |-> {}, hostcalls |-> <<>>, last |-> [callback |-> "new"],
     inbound |-> [headers |-> headers, body |-> body],
     chat_completions_request |-> FALSE, response_tokens |-> 0, delivered |-> <<>>]

\* The fields of the StreamContext whose callback runs.
Private ==
    [req_headers |-> req_headers, req_body |-> req_body, stage |-> stage,
     llm_provider |-> llm_provider, ratelimit_selector |-> ratelimit_selector,
     streaming_response |-> streaming_response, callouts |-> callouts,
     hostcalls |-> hostcalls, last |-> last, inbound |-> inbound,
     chat_completions_request |-> chat_completions_request,
     response_tokens |-> response_tokens, delivered |-> delivered]

\* The host turns to the other request: a second context is created while the
\* first is in flight, or the context that waited gets the next callback. The
\* metrics, the configuration and the host's token counter are the same for
\* both.
Activate ==
    LET context == IF other = None
                   THEN StreamContextNew(inbound.headers, inbound.body)
                   ELSE unwrap(other)
    IN
    /\ req_headers' = context.req_headers
    /\ req_body' = context.req_body
    /\ stage' = context.stage
    /\ llm_provider' = context.llm_provider
    /\ ratelimit_selector' = context.ratelimit_selector
    /\ streaming_response' = context.streaming_response
    /\ callouts' = context.callouts
    /\ hostcalls' = context.hostcalls
    /\ last' = context.last
    /\ inbound' = context.inbound
    /\ chat_completions_request' = context.chat_completions_request
    /\ response_tokens' = context.response_tokens
    /\ delivered' = context.delivered
    /\ other' = Some(Private)
    /\ current' = 3 - current
    /\ UNCHANGED <<configuration, prompt_guards, overrides, active_http_calls,
                   ratelimited_rq, next_token_id, rootvars, host_header>>

InitPair ==
    InitWith({Some([input_guards |-> [jailbreak |-> Some(GuardOptions(None))]])},
             {None}, {FullHeaders},
             {ChatCompletions(Some(<<"gpt-in">>), Some(<<UserHello>>), None, None, None)})

\* The callbacks the two requests are given: the whole body at once, every
\* call accepted, and of each reply kind the well-formed replies that decide
\* the path (verdict, score, tool call or none, tool status, limiter answer).
SteadyCallbacks ==
    /\ \A i \in DOMAIN hostcalls : hostcalls[i].op = "dispatch" => hostcalls[i].ok
    /\ last.callback = "on_http_call_response" =>
          /\ is_some(last.reply.body)
          /\ LET body == unwrap(last.reply.body)
                 handler == last.context.response_handler_type
             IN  CASE handler = CurveGuard ->
                        body.kind = "json" /\ is_some(body.jailbreak_verdict)
                   [] handler = GetEmbeddings ->
                        body.kind = "json" /\ body.data = <<(<<3, 4>>)>>
                   [] handler = ZeroShotIntent ->
                        /\ body.kind = "json"
                        /\ body.predicted_class = "weather"
                        /\ body.predicted_class_score \in {20, 90}
                   [] handler = FunctionResolver ->
                        /\ body.kind = "json"
                        /\ body.choices # <<>>
                        /\ body.choices[1].message.tool_calls
                              \in {None, Some(<<ToolCall("weather")>>)}
                   [] OTHER ->
                        /\ body.kind = "text"
                        /\ last.reply.status \in {Some("200"), Some("503")}
                        /\ is_some(last.reply.gate.tokens)

NextPair ==
    \/ OnHttpRequestHeaders
    \/ OnHttpRequestBody(TRUE, TRUE, TRUE)
    \/ OnGuardReply /\ SteadyCallbacks'
    \/ OnEmbeddingReply /\ SteadyCallbacks'
    \/ OnZeroShotReply /\ SteadyCallbacks'
    \/ OnResolverReply /\ SteadyCallbacks'
    \/ OnToolReply /\ SteadyCallbacks'
    \/ Activate

SpecPair == InitPair /\ [][NextPair]_vars

\* ============================================================ response path
\* How many response chunks the host delivers for one request.
MaxChunks == 2

\* tokenizer::token_count: the number of tokens of a text, here its length.
token_count(model, content) == Len(content)

\* A streaming chunk `{model, choices: [{delta: {content}}]}`.
ChatCompletionChunkResponse(model, contents) ==
    [json |-> "chunk", model |-> model, choices |-> contents]

\* What the upstream can put in a response chunk: streaming chunks with and
\* without content and without choices, the sentinels, a complete response
\* with its usage, and bytes that are no JSON; each after `data: ` or bare.
ResponsePayloads ==
    {ChatCompletionChunkResponse("M", <<Some(<<"a", "b">>)>>),
     ChatCompletionChunkResponse("M", <<Some(<<"c", "d">>)>>),
     ChatCompletionChunkResponse("M", <<None>>),
     ChatCompletionChunkResponse("M", <<>>),
     [json |-> "[NONE]"], [json |-> "[DONE]"], [json |-> "garbage"],
     [json |-> "response", usage |-> [completion_tokens |-> 3]]}

ResponseChunks ==
    {None} \cup {Some([data |-> d, payload |-> p]) : d \in BOOLEAN, p \in ResponsePayloads}

\* What on_http_response_body returns and does.
ResponseResult(action, effect, tokens) ==
    [action |-> action, effect |-> effect, response_tokens |-> tokens]

\* on_http_response_body once the request counts as a chat-completions request.
response_accounting(streaming, tokens, body, end_of_stream) ==
    IF ~end_of_stream /\ ~streaming THEN ResponseResult("Pause", Calls(<<>>), tokens)
    ELSE IF is_none(body) THEN ResponseResult("Continue", Fatal, tokens)
    ELSE LET chunk == unwrap(body) IN
         IF streaming
         THEN IF ~chunk.data
              THEN ResponseResult("Pause",
                       Calls(<<send_server_error(
                           ErrorBody("parsing error in streaming data"), None)>>), tokens)
              ELSE IF chunk.payload.json # "chunk"
              THEN IF chunk.payload.json # "[NONE]"
                   THEN ResponseResult("Continue",
                            Calls(<<send_server_error(
                                ErrorBody("error in streaming response"), None)>>), tokens)
                   ELSE ResponseResult("Continue", Calls(<<>>), tokens)
              ELSE IF chunk.payload.choices = <<>>
              THEN ResponseResult("Continue", Fatal, tokens)
              ELSE IF is_some(chunk.payload.choices[1])
              THEN ResponseResult("Continue", Calls(<<>>),
                       tokens + token_count(chunk.payload.model,
                                            unwrap(chunk.payload.choices[1])))
              ELSE ResponseResult("Continue", Calls(<<>>), tokens)
         ELSE IF chunk.data \/ chunk.payload.json # "response"
              THEN ResponseResult("Pause",
                       Calls(<<send_server_error(
                           ErrorBody("error in non-streaming response"), None)>>), tokens)
              ELSE ResponseResult("Continue", Calls(<<>>),
                       tokens + chunk.payload.usage.completion_tokens)

\* Mutant: the chat_completions_request test is left out.
on_http_response_body_unflagged(is_chat, streaming, tokens, body, end_of_stream) ==
    response_accounting(streaming, tokens, body, end_of_stream)

\* on_http_response_body
on_http_response_body(is_chat, streaming, tokens, body, end_of_stream) ==
    IF ~is_chat THEN ResponseResult("Continue", Calls(<<>>), tokens)
    ELSE response_accounting(streaming, tokens, body, end_of_stream)

OnHttpResponseBody(body, end_of_stream) ==
    /\ stage = "forwarded"
    /\ Len(delivered) < MaxChunks
    /\ LET result == on_http_response_body(chat_completions_request, streaming_response,
                                           response_tokens, body, end_of_stream)
       IN  /\ Apply(result.effect, callouts, "forwarded")
           /\ response_tokens' = result.response_tokens
           /\ last' = [callback |-> "on_http_response_body", body |-> body,
                       end_of_stream |-> end_of_stream, action |-> result.action,
                       sent |-> Ops(result.effect.calls, "send") # {},
                       tokens_before |-> response_tokens]
    /\ delivered' = Append(delivered, body)
    /\ UNCHANGED <<config, chat_completions_request, req_headers, llm_provider,
                   ratelimit_selector, streaming_response>>

\* One chat-completions request per stream choice and one request without a
\* body, under a configuration with a Jailbreak guard.
InitResponse ==
    InitWith({Some([input_guards |-> [jailbreak |-> Some(GuardOptions(None))]])},
             {None}, {FullHeaders},
             {ChatCompletions(Some(<<"gpt-in">>), Some(<<UserHello>>), None,
                              c.stream, c.stream_options) : c \in StreamChoices}
             \cup {EmptyBody})

NextResponse ==
    \/ Next
    \/ \E body \in ResponseChunks, end_of_stream \in BOOLEAN :
          OnHttpResponseBody(body, end_of_stream)

SpecResponse == InitResponse /\ [][NextResponse]_vars

\* ===================================================== prompt gateway root
\* How many ticks the host delivers to the root context.
MaxTicks == 2

\* EmbeddingType (the root context only ever asks for Description).
Description == "Description"

\* The prompt target names a configuration can list, in the order calls are numbered.
RootTargetOrder == <<"weather", "news">>

RootTargetNames == {RootTargetOrder[i] : i \in DOMAIN RootTargetOrder}

\* The embedding vectors the embedding server can answer with.
Vectors == {"v1", "v2", "v3"}

\* What get_http_call_response_body and serde_json::from_slice can make of a reply.
RootEmbeddingReplies ==
    {[body |-> "none", data |-> <<>>], [body |-> "empty", data |-> <<>>],
     [body |-> "undecodable", data |-> <<>>], [body |-> "json", data |-> <<>>]}
    \cup {[body |-> "json", data |-> <<v>>] : v \in Vectors}

\* The tokens the host can hand out for the root context's calls.
RootTokens == 1 .. (MaxTicks * Len(RootTargetOrder))

\* FilterCallContext
FilterCallContext(prompt_target_name, embedding_type) ==
    [prompt_target_name |-> prompt_target_name, embedding_type |-> embedding_type]

\* The token schedule_embeddings_call gets for a target when every call is accepted.
TokenOf(name, names, first) ==
    first + Cardinality({i \in DOMAIN RootTargetOrder :
                            /\ RootTargetOrder[i] \in names
                            /\ \E j \in DOMAIN RootTargetOrder :
                                  RootTargetOrder[j] = name /\ i < j})

\* Client::http_call for every target: the token and the context kept in callouts.
process_prompt_targets(names, first) ==
    {[token_id |-> TokenOf(n, names, first), context |-> FilterCallContext(n, Description)]
        : n \in names}

\* A len() that counts one entry too many.
StoreLenOffByOne(store) == Cardinality({e.name : e \in store}) + 1

\* The outer map's len(): the number of targets with an entry.
StoreLen(store) == Cardinality({e.name : e \in store})

\* The vectors a store holds for a (name, kind) pair.
StoredFor(store, name, embedding_type) ==
    {e.embedding : e \in {x \in store : x.name = name /\ x.embedding_type = embedding_type}}

\* embedding_response_handler: what the staging map and the published store become.
embedding_response_handler(reply, embedding_type, prompt_target_name) ==
    LET keep == [panic |-> FALSE, stored |-> FALSE, temp |-> temp_embeddings_store,
                 store |-> embeddings_store]
        fatal == [keep EXCEPT !.panic = TRUE]
    IN  IF prompt_target_name \notin prompt_targets THEN fatal
        ELSE IF reply.body = "none" THEN fatal
        ELSE IF reply.body = "empty" THEN keep
        ELSE IF reply.body = "undecodable" THEN fatal
        ELSE IF reply.data = <<>> THEN fatal
        ELSE IF StoredFor(temp_embeddings_store, prompt_target_name, embedding_type) # {}
             THEN fatal
        ELSE LET staged == temp_embeddings_store \cup
                             {[name |-> prompt_target_name, embedding_type |-> embedding_type,
                               embedding |-> reply.data[1]]}
             IN  IF Cardinality(prompt_targets) = StoreLen(staged)
                 THEN [panic |-> FALSE, stored |-> TRUE, temp |-> {}, store |-> Some(staged)]
                 ELSE [panic |-> FALSE, stored |-> TRUE, temp |-> staged,
                       store |-> embeddings_store]

\* The entries request contexts can be handed.
Published == IF embeddings_store = None THEN {} ELSE embeddings_store[1]

\* create_http_context: no context while there is no published store.
create_http_context ==
    IF embeddings_store = None THEN None
    ELSE Some([embedding_store |-> embeddings_store[1]])

\* on_vm_start
OnVmStart ==
    /\ root = "new"
    /\ root' = "started"
    /\ tick_period' = 1
    /\ root_last' = [callback |-> "on_vm_start"]
    /\ UNCHANGED <<streamvars, prompt_targets, ticks, root_callouts, root_active_calls,
                   root_next_token, temp_embeddings_store, embeddings_store, received,
                   http_contexts, EMBEDDINGS>>

\* on_configure
RootOnConfigure(names) ==
    /\ root = "started"
    /\ root' = "configured"
    /\ prompt_targets' = names
    /\ root_last' = [callback |-> "on_configure"]
    /\ UNCHANGED <<streamvars, tick_period, ticks, root_callouts, root_active_calls,
                   root_next_token, temp_embeddings_store, embeddings_store, received,
                   http_contexts, EMBEDDINGS>>

\* on_tick: one embedding call per target, then the tick is switched off. A call
\* the host refuses is a panic.
OnTick(accepted) ==
    /\ root = "configured"
    /\ ticks < MaxTicks
    /\ ticks' = ticks + 1
    /\ root_last' = [callback |-> "on_tick", accepted |-> accepted]
    /\ IF accepted \/ prompt_targets = {}
       THEN /\ root_callouts' = root_callouts \cup
                                  process_prompt_targets(prompt_targets, root_next_token)
            /\ root_active_calls' = root_active_calls + Cardinality(prompt_targets)
            /\ root_next_token' = root_next_token + Cardinality(prompt_targets)
            /\ tick_period' = 0
            /\ root' = root
       ELSE /\ root' = "aborted"
            /\ UNCHANGED <<root_callouts, root_active_calls, root_next_token, tick_period>>
    /\ UNCHANGED <<streamvars, prompt_targets, temp_embeddings_store, embeddings_store,
                   received, http_contexts, EMBEDDINGS>>

\* Context::on_http_call_response of the root context.
RootOnHttpCallResponse(token_id, reply) ==
    /\ root = "configured"
    /\ \E e \in root_callouts : e.token_id = token_id
    /\ LET entry == CHOOSE e \in root_callouts : e.token_id = token_id
           name == entry.context.prompt_target_name
           kind == entry.context.embedding_type
           pair == [name |-> name, embedding_type |-> kind]
           done == embedding_response_handler(reply, kind, name)
       IN  /\ root_callouts' = root_callouts \ {entry}
           /\ root_active_calls' = root_active_calls - 1
           /\ root' = IF done.panic THEN "aborted" ELSE root
           /\ temp_embeddings_store' = done.temp
           /\ embeddings_store' = done.store
           /\ received' = IF done.stored THEN received \cup {pair} ELSE received
           /\ root_last' = [callback |-> "on_http_call_response", context |-> entry.context,
                            reply |-> reply, had_entry |-> pair \in received,
                            visible |-> StoredFor(temp_embeddings_store, name, kind) \cup
                                        StoredFor(Published, name, kind)]
    /\ UNCHANGED <<streamvars, prompt_targets, tick_period, ticks, root_next_token,
                   http_contexts, EMBEDDINGS>>

\* The host asks for a request context.
CreateHttpContext ==
    /\ root = "configured"
    /\ http_contexts' = http_contexts \cup
                          {[context |-> create_http_context, received |-> received]}
    /\ root_last' = [callback |-> "create_http_context"]
    /\ UNCHANGED <<streamvars, root, prompt_targets, tick_period, ticks, root_callouts,
                   root_active_calls, root_next_token, temp_embeddings_store,
                   embeddings_store, received, EMBEDDINGS>>

InitRoot == InitWith({None}, {None}, {BareHeaders}, {EmptyBody})

NextRoot ==
    \/ OnVmStart
    \/ \E names \in SUBSET RootTargetNames : RootOnConfigure(names)
    \/ \E accepted \in BOOLEAN : OnTick(accepted)
    \/ \E token_id \in RootTokens, reply \in RootEmbeddingReplies :
          RootOnHttpCallResponse(token_id, reply)
    \/ CreateHttpContext

SpecRoot == InitRoot /\ [][NextRoot]_vars

\* The replies that carry a vector.
ValidEmbeddingReplies == {r \in RootEmbeddingReplies : r.body = "json" /\ r.data # <<>>}

\* Startup under a host that ticks only while the period it was given is
\* positive and accepts every call, and an embedding server whose replies all
\* carry a vector.
NextStartup ==
    \/ OnVmStart
    \/ \E names \in SUBSET RootTargetNames : RootOnConfigure(names)
    \/ tick_period > 0 /\ OnTick(TRUE)
    \/ \E token_id \in RootTokens, reply \in ValidEmbeddingReplies :
          RootOnHttpCallResponse(token_id, reply)
    \/ CreateHttpContext

\* The host delivers every callback that is due: the start, the configuration,
\* the tick, and the reply of every call it accepted.
SpecStartup ==
    /\ InitRoot
    /\ [][NextStartup]_vars
    /\ WF_vars(OnVmStart)
    /\ WF_vars(\E names \in SUBSET RootTargetNames : RootOnConfigure(names))
    /\ WF_vars(tick_period > 0 /\ OnTick(TRUE))
    /\ \A token_id \in RootTokens :
          WF_vars(\E reply \in ValidEmbeddingReplies : RootOnHttpCallResponse(token_id, reply))

\* ============================================================== curve root
\* EmbeddingType::Name (curve's root context asks for both kinds).
Name == "Name"

\* The tokens the host can hand out for the calls of one tick of curve's root context.
CurveRootTokens == 1 .. (2 * Len(RootTargetOrder))

\* process_prompt_targets of curve: per target one call for the name and then one
\* for the description, each kept in callouts under its token.
curve_process_prompt_targets(names, first) ==
    UNION {{[token_id |-> first + 2 * TokenOf(n, names, 0),
             context |-> FilterCallContext(n, Name)],
            [token_id |-> first + 2 * TokenOf(n, names, 0) + 1,
             context |-> FilterCallContext(n, Description)]} : n \in names}

\* embedding_response_handler of curve: the outer map's insert puts a fresh inner
\* map with the one kind in the place of whatever the target had.
curve_embedding_response_handler(reply, embedding_type, prompt_target_name) ==
    LET keep == [panic |-> FALSE, stored |-> FALSE, store |-> EMBEDDINGS]
        fatal == [keep EXCEPT !.panic = TRUE]
    IN  IF prompt_target_name \notin prompt_targets THEN fatal
        ELSE IF reply.body = "none" THEN fatal
        ELSE IF reply.body = "empty" THEN keep
        ELSE IF reply.body = "undecodable" THEN fatal
        ELSE IF reply.data = <<>> THEN fatal
        ELSE [panic |-> FALSE, stored |-> TRUE,
              store |-> {e \in EMBEDDINGS : e.name # prompt_target_name} \cup
                          {[name |-> prompt_target_name, embedding_type |-> embedding_type,
                            embedding |-> reply.data[1]]}]

\* on_tick of curve: two embedding calls per target, the gauge set to the size of
\* callouts, then the tick is switched off. A call the host refuses is a panic.
CurveOnTick(accepted) ==
    /\ root = "configured"
    /\ ticks < MaxTicks
    /\ ticks' = ticks + 1
    /\ root_last' = [callback |-> "on_tick", accepted |-> accepted]
    /\ IF accepted \/ prompt_targets = {}
       THEN /\ root_callouts' = root_callouts \cup
                                  curve_process_prompt_targets(prompt_targets, root_next_token)
            /\ root_active_calls' = IF prompt_targets = {} THEN root_active_calls
                                    ELSE Cardinality(root_callouts')
            /\ root_next_token' = root_next_token + 2 * Cardinality(prompt_targets)
            /\ tick_period' = 0
            /\ root' = root
       ELSE /\ root' = "aborted"
            /\ UNCHANGED <<root_callouts, root_active_calls, root_next_token, tick_period>>
    /\ UNCHANGED <<streamvars, prompt_targets, temp_embeddings_store, embeddings_store,
                   received, http_contexts, EMBEDDINGS>>

\* Context::on_http_call_response of curve's root context. received keeps, per
\* target and kind, the vector of the reply stored last.
CurveRootOnHttpCallResponse(token_id, reply) ==
    /\ root = "configured"
    /\ \E e \in root_callouts : e.token_id = token_id
    /\ LET entry == CHOOSE e \in root_callouts : e.token_id = token_id
           name == entry.context.prompt_target_name
           kind == entry.context.embedding_type
           done == curve_embedding_response_handler(reply, kind, name)
       IN  /\ root_callouts' = root_callouts \ {entry}
           /\ root_active_calls' = Cardinality(root_callouts')
           /\ root' = IF done.panic THEN "aborted" ELSE root
           /\ EMBEDDINGS' = done.store
           /\ received' = IF done.stored
                          THEN {r \in received : ~(r.name = name /\ r.embedding_type = kind)}
                               \cup {[name |-> name, embedding_type |-> kind,
                                      embedding |-> reply.data[1]]}
                          ELSE received
           /\ root_last' = [callback |-> "on_http_call_response", context |-> entry.context,
                            reply |-> reply]
    /\ UNCHANGED <<streamvars, prompt_targets, tick_period, ticks, root_next_token,
                   temp_embeddings_store, embeddings_store, http_contexts>>

\* curve's root context under a host that ticks only while the period it was given
\* is positive; on_vm_start and on_configure act on these fields as the prompt
\* gateway's do.
NextCurveRoot ==
    \/ OnVmStart
    \/ \E names \in SUBSET RootTargetNames : RootOnConfigure(names)
    \/ \E accepted \in BOOLEAN : tick_period > 0 /\ CurveOnTick(accepted)
    \/ \E token_id \in CurveRootTokens, reply \in RootEmbeddingReplies :
          CurveRootOnHttpCallResponse(token_id, reply)

SpecCurveRoot == InitRoot /\ [][NextCurveRoot]_vars

\* =========================================================== legacy filter
\* The request filter of envoyfilter/src/stream_context.rs. Its StreamContext
\* has host_header, ratelimit_selector, callouts and the metrics; the host's
\* view of the request is kept in the same variables as for curve.

\* modify_path_header: /llmrouting becomes the OpenAI path.
modify_path_header(headers) ==
    IF get_http_request_header(headers, ":path") = Some("/llmrouting")
    THEN set_http_request_header(headers, ":path", Some("/v1/chat/completions"))
    ELSE headers

\* A request to the routing path with a host and a rate-limit selector, and one
\* to another path with neither.
LegacyInboundHeaders ==
    {[h \in {":host", ":path", "content-length", RATELIMIT_SELECTOR_HEADER_KEY, "x-user-id"}
        |-> CASE h = ":host" -> Some("gateway")
              [] h = ":path" -> Some("/llmrouting")
              [] h = "content-length" -> Some("120")
              [] h = RATELIMIT_SELECTOR_HEADER_KEY -> Some("x-user-id")
              [] OTHER -> Some("alice")],
     [h \in {":host", ":path", "content-length", RATELIMIT_SELECTOR_HEADER_KEY, "x-user-id"}
        |-> CASE h = ":path" -> Some("/v1/models")
              [] h = "content-length" -> Some("120")
              [] OTHER -> None]}

\* A question the function-resolver asked in an earlier turn.
BoltAsk == Message(ASSISTANT_ROLE, Some("Which city?"), Some(<<"Bolt", "-FC">>))

\* Parameter: name and required.
Parameter(name, required) == [name |-> name, required |-> required]

\* The prompt targets the vector store can return in a payload: one with two
\* required parameters and an optional one, one whose only parameter is not
\* required and whose endpoint has no path, one without parameters and endpoint.
LegacyPromptTargets ==
    {[name |-> "weather",
      endpoint |-> Some([cluster |-> "weather_api", path |-> Some("/weather")]),
      parameters |-> Some(<<Parameter("city", Some(TRUE)), Parameter("days", Some(TRUE)),
                            Parameter("unit", None)>>),
      system_prompt |-> Some("You are a weather reporter.")],
     [name |-> "news",
      endpoint |-> Some([cluster |-> "news_api", path |-> None]),
      parameters |-> Some(<<Parameter("topic", Some(FALSE))>>),
      system_prompt |-> None],
     [name |-> "chat", endpoint |-> None, parameters |-> None, system_prompt |-> None]}

\* Whether the second-to-last message comes from a "Bolt" model.
bolt_assistant(messages) ==
    IF Len(messages) >= 2
    THEN LET latest_assistant_message == messages[Len(messages) - 1]
         IN  /\ is_some(latest_assistant_message.model)
             /\ starts_with(unwrap(latest_assistant_message.model), <<"Bolt">>)
    ELSE FALSE

\* A panic after the host calls made so far.
PanicAfter(calls) == [Calls(calls) EXCEPT !.panic = TRUE]

\* embeddings_handler of the legacy filter: the vector goes to the vector store.
legacy_embeddings_handler(body, callout_context, ok) ==
    IF body.kind # "json"
    THEN Calls(<<send_http_response(500, ErrorBody("Error deserializing embedding response"))>>)
    ELSE IF body.data = <<>>
    THEN Fatal
    ELSE
    LET call == dispatch_http_call("search", "qdrant", "/collections/points/search", "POST",
                    Some([vector |-> body.data[1], limit |-> 10]), ok)
    IN  IF ~ok
        THEN PanicAfter(<<call>>)
        ELSE Effect(<<call>>, Some([callout_context EXCEPT !.request_type = "SearchPoints"]), 1)

\* The handler of the vector store's reply: no hit or a score below the
\* threshold sends the request upstream as it is, otherwise the function-resolver
\* is asked with the hit's prompt target as the only tool.
securve_points_handler(body, callout_context, ok) ==
    IF body.kind # "json"
    THEN Calls(<<send_http_response(500,
                    ErrorBody("Error deserializing search_points_response"))>>)
    ELSE IF body.result = <<>>
    THEN Calls(<<resume_http_request>>)
    ELSE IF /\ body.result[1].score < DEFAULT_PROMPT_TARGET_THRESHOLD
            /\ ~bolt_assistant(callout_context.request_body.messages)
    THEN Calls(<<resume_http_request>>)
    ELSE IF is_none(body.result[1].payload)
    THEN Fatal
    ELSE IF unwrap(body.result[1].payload) = GarbageReply
    THEN Calls(<<send_http_response(500, ErrorBody("Error deserializing prompt_target"))>>)
    ELSE
    LET prompt_target == unwrap(body.result[1].payload)
        chat_completions == [model    |-> GPT_35_TURBO,
                             messages |-> callout_context.request_body.messages,
                             tools    |-> Some({prompt_target.name})]
        call == dispatch_http_call("resolver", "BOLT_FC_CLUSTER", "/v1/chat/completions",
                                   "POST", Some(chat_completions), ok)
    IN  IF ~ok
        THEN PanicAfter(<<call>>)
        ELSE Effect(<<call>>,
                    Some([callout_context EXCEPT !.request_type = "FunctionResolver",
                                                 !.prompt_target = Some(prompt_target)]),
                    1)

\* The for_each over the prompt target's parameters: one 400 per parameter that
\* is required and has no argument; the return in the closure ends the closure.
missing_required_parameters(parameters, arguments) ==
    LET missing(param) == param.required = Some(TRUE) /\ param.name \notin arguments
        reported == SelectSeq(parameters, missing)
    IN  [i \in 1..Len(reported) |-> send_http_response(400, "missing required parameter")]

\* function_resolver_handler of the legacy filter. arguments is the set of the
\* argument names of a tool call.
legacy_function_resolver_handler(body, callout_context, ok) ==
    IF body.kind # "json"
    THEN Fatal
    ELSE IF is_none(body.message.content)
    THEN Fatal
    ELSE IF unwrap(body.message.content).kind # "tool_calls"
    THEN Calls(<<send_http_response(200,
                    [body EXCEPT !.resolver_name =
                                    Some(unwrap(callout_context.prompt_target).name)])>>)
    ELSE
    LET tool_calls == unwrap(body.message.content).tool_calls
        prompt_target == unwrap(callout_context.prompt_target)
    IN  IF is_none(prompt_target.parameters)
        THEN Fatal
        ELSE IF tool_calls = <<>>
        THEN Fatal
        ELSE
        LET reported == missing_required_parameters(unwrap(prompt_target.parameters),
                                                    tool_calls[1].arguments)
        IN  IF is_none(prompt_target.endpoint)
            THEN PanicAfter(reported)
            ELSE
            LET endpoint == unwrap(prompt_target.endpoint)
                call == dispatch_http_call("tool", endpoint.cluster,
                            unwrap_or(endpoint.path, "/"), "POST",
                            Some(tool_calls[1].arguments), ok)
            IN  IF ~ok
                THEN PanicAfter(Append(reported, call))
                ELSE Effect(Append(reported, call),
                            Some([callout_context
                                     EXCEPT !.request_type = "FunctionCallResponse"]),
                            1)

\* function_call_response_handler of the legacy filter: the messages are put
\* together as in curve's, the model is GPT_35_TURBO, the limiter is asked for
\* the model of the inbound body.
legacy_function_call_response_handler(body, callout_context, selector, gate) ==
    IF body.kind = NonUtf8
    THEN Fatal
    ELSE
    LET prompt_target == unwrap(callout_context.prompt_target)
        request_message ==
            [model    |-> GPT_35_TURBO,
             messages |-> synthesized_messages(callout_context, prompt_target, body.text),
             tools    |-> None]
        json_string == JsonBody([model    |-> Some(request_message.model),
                                 messages |-> Some(request_message.messages),
                                 tools    |-> None])
        forward == <<set_http_request_body(json_string), resume_http_request>>
    IN  IF ~gate_consulted(selector, gate)
        THEN [Calls(forward) EXCEPT !.take = TRUE]
        ELSE
        LET check == check_limit(callout_context.request_body.model,
                                 unwrap(selector), gate.allowed)
        IN  IF gate.allowed
            THEN [Calls(<<check>> \o forward) EXCEPT !.take = TRUE]
            ELSE ratelimit_exceeded(check, forward)

\* on_http_request_body of the legacy filter.
legacy_on_http_request_body(buffer, bytes, end_of_stream, ok) ==
    IF ~end_of_stream THEN BodyResult(Calls(<<>>), "Pause", None)
    ELSE IF buffer.kind = "empty" THEN BodyResult(Calls(<<>>), "Continue", None)
    ELSE IF is_none(bytes)
    THEN BodyResult(Calls(<<send_http_response(500, None)>>), "Pause", None)
    ELSE IF is_none(from_slice(unwrap(bytes)))
    THEN BodyResult(Calls(<<send_http_response(400, ErrorBody("Failed to deserialize"))>>),
                    "Pause", None)
    ELSE
    LET deserialized_body == unwrap(from_slice(unwrap(bytes)))
        user_message == last_content(deserialized_body.messages)
    IN  IF is_none(user_message)
        THEN BodyResult(Calls(<<>>), "Continue", None)
        ELSE
        LET call == dispatch_http_call("embedding", "embeddingserver", "/embeddings", "POST",
                                       Some([input |-> unwrap(user_message)]), ok)
            call_context == [request_type  |-> "GetEmbedding",
                             user_message  |-> user_message,
                             prompt_target |-> None,
                             request_body  |-> deserialized_body]
        IN  IF ~ok
            THEN BodyResult(PanicAfter(<<call>>), "Pause", None)
            ELSE BodyResult(Effect(<<call>>, Some(call_context), 1), "Pause", None)

\* on_http_request_headers of the legacy filter.
LegacyOnHttpRequestHeaders ==
    /\ stage = "headers"
    /\ host_header' = get_http_request_header(req_headers, ":host")
    /\ req_headers' = modify_path_header(delete_content_length_header(req_headers))
    /\ ratelimit_selector' = save_ratelimit_header(req_headers')
    /\ Apply(Calls(<<>>), callouts, "body")
    /\ last' = [callback |-> "on_http_request_headers", action |-> "Continue"]
    /\ UNCHANGED <<shared, response, llm_provider, streaming_response>>

LegacyOnHttpRequestBody(end_of_stream, bytes_available, ok) ==
    /\ stage = "body"
    /\ LET result == legacy_on_http_request_body(req_body,
                         IF bytes_available THEN Some(req_body) ELSE None,
                         end_of_stream, ok)
       IN  /\ Apply(result.effect, callouts,
                    IF result.action = "Continue" THEN "forwarded"
                    ELSE IF end_of_stream THEN "paused" ELSE "body")
           /\ last' = [callback |-> "on_http_request_body", end_of_stream |-> end_of_stream,
                       bytes_available |-> bytes_available, action |-> result.action]
    /\ UNCHANGED <<shared, response, host_header, req_headers, llm_provider,
                   ratelimit_selector, streaming_response>>

\* Context::on_http_call_response of the legacy filter: the CallContext of the
\* token is removed, the gauge decremented, and the handler of its type run on
\* the reply body; a reply without a body is only logged.
legacy_on_http_call_response(entry, reply, handler_effect) ==
    /\ stage = "paused"
    /\ entry \in callouts
    /\ LET effect == IF is_none(reply.body) THEN Calls(<<>>) ELSE handler_effect
       IN  /\ Apply([effect EXCEPT !.gauge = @ - 1], callouts \ {entry}, "paused")
           /\ ratelimit_selector' = IF effect.take THEN None ELSE ratelimit_selector
    /\ last' = [callback |-> "on_http_call_response", token_id |-> entry.token_id,
                context |-> entry.context, reply |-> reply]
    /\ UNCHANGED <<shared, response, host_header, req_headers, llm_provider,
                   streaming_response>>

\* What the vector store can answer: nothing, something undecodable, no hit, or
\* a hit with a score and a payload whose prompt-target is missing, undecodable
\* or a prompt target.
SecurvePointsReplies ==
    {[body |-> None], [body |-> Some(GarbageReply)],
     [body |-> Some([kind |-> "json", result |-> <<>>])]}
    \cup {[body |-> Some([kind |-> "json", result |-> <<[score |-> x, payload |-> p]>>])] :
            x \in {20, 90},
            p \in {None, Some(GarbageReply)} \cup {Some(t) : t \in LegacyPromptTargets}}

\* BoltFCResponse: the message content is missing, a question for the user, or
\* the JSON text of a BoltFCToolsCall.
BoltFCResponse(content) ==
    [kind |-> "json", message |-> [role |-> ASSISTANT_ROLE, content |-> content],
     resolver_name |-> None]

\* Tool calls with every choice of arguments for the two required parameters,
\* up to MaxToolCalls of them.
LegacyResolverReplies ==
    {[body |-> None], [body |-> Some(GarbageReply)], [body |-> Some(BoltFCResponse(None))],
     [body |-> Some(BoltFCResponse(Some([kind |-> "text", text |-> "Which city?"])))],
     [body |-> Some(BoltFCResponse(Some([kind |-> "tool_calls", tool_calls |-> <<>>])))]}
    \cup {[body |-> Some(BoltFCResponse(Some(
              [kind |-> "tool_calls",
               tool_calls |-> [i \in 1..n |-> [name |-> "weather", arguments |-> a]]])))] :
            a \in SUBSET {"city", "days"}, n \in 1..MaxToolCalls}

LegacyPending(request_type) == {c \in callouts : c.context.request_type = request_type}

OnLegacyEmbeddingReply ==
    \E entry \in LegacyPending("GetEmbedding"), reply \in EmbeddingReplies, ok \in BOOLEAN :
        legacy_on_http_call_response(entry, reply,
            legacy_embeddings_handler(unwrap(reply.body), entry.context, ok))

OnSecurvePointsReply ==
    \E entry \in LegacyPending("SearchPoints"), reply \in SecurvePointsReplies,
       ok \in BOOLEAN :
        legacy_on_http_call_response(entry, reply,
            securve_points_handler(unwrap(reply.body), entry.context, ok))

OnLegacyResolverReply ==
    \E entry \in LegacyPending("FunctionResolver"), reply \in LegacyResolverReplies,
       ok \in BOOLEAN :
        legacy_on_http_call_response(entry, reply,
            legacy_function_resolver_handler(unwrap(reply.body), entry.context, ok))

OnLegacyToolReply ==
    \E entry \in LegacyPending("FunctionCallResponse"),
       reply \in {r \in ToolReplies : r.status = Some("200")}, gate \in GateAnswers :
        legacy_on_http_call_response(entry, [body |-> reply.body, gate |-> gate],
            legacy_function_call_response_handler(unwrap(reply.body), entry.context,
                                                  ratelimit_selector, gate))

InitLegacy ==
    InitWith({None}, {None}, LegacyInboundHeaders,
             {EmptyBody, GarbageBody}
             \cup {ChatCompletions(Some(<<"gpt-in">>), Some(l), None, None, None) :
                     l \in {<<>>, <<UserHello>>, <<BoltAsk, UserHello>>, <<ToolTurn>>}})

NextLegacy ==
    \/ LegacyOnHttpRequestHeaders
    \/ \E end_of_stream \in BOOLEAN, bytes_available \in BOOLEAN, ok \in BOOLEAN :
           LegacyOnHttpRequestBody(end_of_stream, bytes_available, ok)
    \/ OnLegacyEmbeddingReply
    \/ OnSecurvePointsReply
    \/ OnLegacyResolverReply
    \/ OnLegacyToolReply

SpecLegacy == InitLegacy /\ [][NextLegacy]_vars

\* =============================================================== observers
IsDispatch(call) == call.op = "dispatch"

\* The outbound calls the filter asked for, accepted by the host or not.
Dispatches == SelectSeq(hostcalls, IsDispatch)

DispatchKinds == [i \in 1..Len(Dispatches) |-> Dispatches[i].kind]

Dispatched(kind) == \E i \in 1..Len(Dispatches) : Dispatches[i].kind = kind

Resumed == Ops(hostcalls, "resume") # {}

LastCall == hostcalls[Len(hostcalls)]

\* The reply handled last was handed to the handler of this type.
Handled(handler) ==
    /\ last.callback = "on_http_call_response"
    /\ last.context.response_handler_type = handler
    /\ is_some(last.reply.body)

InboundMessages == unwrap(inbound.body.json.messages)

\* ================================================================== claims
\* ---- C1
ZeroShotScored ==
    /\ Handled(ZeroShotIntent)
    /\ unwrap(last.reply.body).kind = "json"
    /\ unwrap(last.reply.body).predicted_class
           \in DOMAIN unwrap(last.context.similarity_scores)

ConfiguredThreshold ==
    IF overrides = None THEN DEFAULT_PROMPT_TARGET_THRESHOLD
    ELSE IF overrides[1].prompt_target_intent_matching_threshold = None
    THEN DEFAULT_PROMPT_TARGET_THRESHOLD
    ELSE overrides[1].prompt_target_intent_matching_threshold[1]

FusedScoreTimes10 ==
    7 * unwrap(last.reply.body).predicted_class_score
    + 3 * unwrap(last.context.similarity_scores)[unwrap(last.reply.body).predicted_class]

SecondToLastIsCurve ==
    /\ Len(InboundMessages) >= 2
    /\ InboundMessages[Len(InboundMessages) - 1].model # None
    /\ InboundMessages[Len(InboundMessages) - 1].model[1] # <<>>
    /\ InboundMessages[Len(InboundMessages) - 1].model[1][1] = "Curve"

FusionDecision == FusedScoreTimes10 >= 10 * ConfiguredThreshold \/ SecondToLastIsCurve

\* C1: after a zero-shot reply (predicted_class, predicted_class_score) is
\* handled, the function-resolver call is issued exactly when
\* 0.7*score + 0.3*similarity[predicted_class] >= threshold or the
\* second-to-last message has a model starting with "Curve", and in every
\* other case the request is resumed upstream; the threshold is the override
\* when set and DEFAULT_PROMPT_TARGET_THRESHOLD otherwise.
C1_FusionDecisionLaw ==
    ZeroShotScored =>
        /\ FusionDecision <=> Dispatched("resolver")
        /\ ~FusionDecision <=> (Resumed /\ LastCall.op = "resume" /\ stage = "forwarded")

\* A score exactly at an overridden threshold goes to the resolver.
C1_Witness ==
    /\ ZeroShotScored
    /\ overrides # None
    /\ FusedScoreTimes10 = 10 * ConfiguredThreshold
    /\ ~SecondToLastIsCurve
    /\ Dispatched("resolver")

\* ---- C2
\* C2: once resume_http_request was called, on the passthrough path or on
\* the tool-success path, no outbound call is dispatched: no dispatch follows
\* a resume among the host calls, and no call is left whose reply could
\* dispatch another.
C2_NoDispatchAfterResume ==
    /\ \A i, j \in DOMAIN hostcalls :
           hostcalls[i].op = "resume" /\ i < j => hostcalls[j].op # "dispatch"
    /\ Resumed => callouts = {}

\* Resumed on the passthrough path, after the embedding and zero-shot calls.
C2_Witness ==
    /\ Resumed
    /\ Handled(ZeroShotIntent)
    /\ DispatchKinds = <<"embedding", "zeroshot">>

\* ---- C3
\* C3: every request forwarded by resume_http_request reaches upstream with
\* the model field of its body equal to the selected provider's model.
C3_ModelOverwritten ==
    (Resumed /\ req_body.kind = "json") =>
        req_body.json.model = Some(unwrap(llm_provider).model)

\* ---- C4
\* C4: every request with stream = true forwarded by resume_http_request
\* reaches upstream with stream_options.include_usage = true.
C4_IncludeUsageForced ==
    (Resumed /\ req_body.kind = "json" /\ req_body.json.stream = Some(TRUE)) =>
        req_body.json.stream_options = Some([include_usage |-> TRUE])

\* ---- C5
\* C5: when the fused score is below the threshold and the second-to-last
\* message is not from a "Curve" model, the request is resumed with the
\* messages, tools and stream of the body the client sent, and neither the
\* function-resolver nor a tool endpoint is called.
C5_PassthroughFrame ==
    (ZeroShotScored /\ ~FusionDecision) =>
        /\ Resumed
        /\ req_body.kind = "json"
        /\ req_body.json.messages = inbound.body.json.messages
        /\ req_body.json.tools = inbound.body.json.tools
        /\ req_body.json.stream = inbound.body.json.stream
        /\ ~Dispatched("resolver")
        /\ ~Dispatched("tool")

\* A streaming request with tools, passed through.
C5_Witness ==
    /\ ZeroShotScored
    /\ ~FusionDecision
    /\ Resumed
    /\ inbound.body.json.tools # None
    /\ inbound.body.json.stream = Some(TRUE)
    /\ Len(InboundMessages) = 2

\* ---- C6
ToolDispatches == {i \in 1..Len(Dispatches) : Dispatches[i].kind = "tool"}

\* The resolver reply handled last lists at least one tool call.
ResolverListedToolCalls ==
    /\ Handled(FunctionResolver)
    /\ unwrap(last.reply.body).kind = "json"
    /\ unwrap(last.reply.body).choices # <<>>
    /\ unwrap(last.reply.body).choices[1].message.tool_calls # None
    /\ unwrap(last.reply.body).choices[1].message.tool_calls[1] # <<>>

FirstToolCallName ==
    unwrap(last.reply.body).choices[1].message.tool_calls[1][1].function.name

FirstToolCallHasEndpoint ==
    /\ FirstToolCallName \in PromptTargetNames
    /\ PromptTargets[FirstToolCallName].endpoint # None

\* C6 as claimed: at most one tool endpoint call per request, and exactly
\* one when the resolver reply lists at least one tool call.
C6_ExactlyOneToolCall ==
    /\ Cardinality(ToolDispatches) <= 1
    /\ ResolverListedToolCalls => Cardinality(ToolDispatches) = 1

\* C6 amended: at most one tool endpoint call per request; when the resolver
\* reply lists at least one tool call, exactly one call is issued, to the
\* endpoint of the target tool_calls[0] names, if that target is configured
\* with an endpoint, and none is issued (the handler aborts) otherwise.
C6_AtMostOneToolCall ==
    /\ Cardinality(ToolDispatches) <= 1
    /\ ResolverListedToolCalls =>
          IF FirstToolCallHasEndpoint
          THEN /\ Cardinality(ToolDispatches) = 1
               /\ \A i \in ToolDispatches :
                      Dispatches[i].cluster = PromptTargets[FirstToolCallName].endpoint[1].name
          ELSE /\ ToolDispatches = {}
               /\ stage = "aborted"

\* Two tool calls listed, one tool endpoint called.
C6_Witness ==
    /\ ResolverListedToolCalls
    /\ Len(unwrap(last.reply.body).choices[1].message.tool_calls[1]) = 2
    /\ FirstToolCallName = "weather"
    /\ Cardinality(ToolDispatches) = 1

\* ---- C7
ResolverAnswered ==
    /\ Handled(FunctionResolver)
    /\ unwrap(last.reply.body).kind = "json"
    /\ unwrap(last.reply.body).choices # <<>>

ResolverToolCalls == unwrap(last.reply.body).choices[1].message.tool_calls

\* C7 as claimed: a resolver reply without tool calls, the field absent or
\* an empty list, ends the request with a 200 carrying the resolver's body,
\* with no tool call and no resume.
C7_NoToolCallsInline200 ==
    (ResolverAnswered /\ (ResolverToolCalls = None \/ ResolverToolCalls = Some(<<>>))) =>
        /\ LastCall = send_http_response(200, unwrap(last.reply.body))
        /\ ToolDispatches = {}
        /\ ~Resumed

\* C7 amended: when tool_calls is absent the request ends with a 200
\* carrying the resolver's body; when tool_calls is an empty list it ends
\* with a 400 "No tool calls found in function resolver response"; in both
\* cases no tool endpoint is called and the request is not resumed.
C7_NoToolCallsEndsRequest ==
    (ResolverAnswered /\ (ResolverToolCalls = None \/ ResolverToolCalls = Some(<<>>))) =>
        /\ LastCall.op = "send"
        /\ IF ResolverToolCalls = None
           THEN LastCall.status = 200 /\ LastCall.body = unwrap(last.reply.body)
           ELSE /\ LastCall.status = 400
                /\ LastCall.body =
                       [text |-> "No tool calls found in function resolver response"]
        /\ ToolDispatches = {}
        /\ ~Resumed
        /\ callouts = {}

\* The resolver asked a question back, which went to the client.
C7_Witness ==
    /\ ResolverAnswered
    /\ ResolverToolCalls = None
    /\ LastCall.op = "send"
    /\ LastCall.status = 200

\* ---- C8
GuardAnswered ==
    /\ Handled(CurveGuard)
    /\ unwrap(last.reply.body).kind = "json"

GuardVerdict == unwrap(last.reply.body).jailbreak_verdict

\* The message of the configuration: the on_exception message of the
\* Jailbreak entry when there is one, the default message otherwise.
ConfiguredJailbreakMessage ==
    IF /\ configuration.prompt_guards # None
       /\ configuration.prompt_guards[1].input_guards.jailbreak # None
       /\ configuration.prompt_guards[1].input_guards.jailbreak[1].on_exception # None
       /\ configuration.prompt_guards[1].input_guards.jailbreak[1].on_exception[1].message # None
    THEN configuration.prompt_guards[1].input_guards.jailbreak[1].on_exception[1].message[1]
    ELSE DefaultJailbreakMessage

\* C8: a guard reply with jailbreak_verdict = true ends the request with a
\* 400 whose body is the configured on_exception message, or the default
\* message when none is configured; no further outbound call is dispatched,
\* the request is never resumed and no callback can follow. A guard reply
\* whose verdict is false or absent is followed by the embedding call.
C8_JailbreakRejected ==
    GuardAnswered =>
        IF GuardVerdict = Some(TRUE)
        THEN /\ LastCall = send_http_response(400, [text |-> ConfiguredJailbreakMessage])
             /\ DispatchKinds = <<"guard">>
             /\ ~Resumed
             /\ callouts = {}
             /\ stage = "paused"
             /\ ~ENABLED Next
        ELSE /\ DispatchKinds = <<"guard", "embedding">>
             /\ Dispatches[2].cluster = MODEL_SERVER_NAME
             /\ Dispatches[2].path = "/embeddings"

\* A jailbreak is reported under a configured on_exception message.
C8_Witness ==
    /\ GuardAnswered
    /\ GuardVerdict = Some(TRUE)
    /\ ConfiguredJailbreakMessage # DefaultJailbreakMessage
    /\ LastCall.op = "send"
    /\ LastCall.status = 400

\* ---- C9
CallOrder == <<"guard", "embedding", "zeroshot", "resolver", "tool">>

\* The kind of call whose reply a handler type receives.
KindHandledBy(handler) ==
    CASE handler = CurveGuard -> "guard"
      [] handler = GetEmbeddings -> "embedding"
      [] handler = ZeroShotIntent -> "zeroshot"
      [] handler = FunctionResolver -> "resolver"
      [] handler = FunctionCall -> "tool"

\* C9: the outbound calls of a request are a run of guard, embedding,
\* zero-shot, function-resolver, tool endpoint that starts at guard or at
\* embedding: every kind at most once, in this order, none skipped. Nothing
\* is dispatched before the body stage, the body stage dispatches at most
\* the first call, and after a reply of one kind has been handled the last
\* call dispatched is of that kind or of the kind that follows it. One call
\* at most is awaited at any time.
C9_SequentialCalls ==
    /\ \/ DispatchKinds = SubSeq(CallOrder, 1, Len(DispatchKinds))
       \/ DispatchKinds = SubSeq(CallOrder, 2, Len(DispatchKinds) + 1)
    /\ Len(DispatchKinds) <= Len(CallOrder)
    /\ Cardinality(callouts) <= 1
    /\ last.callback \in {"new", "on_http_request_headers"} => Dispatches = <<>>
    /\ last.callback = "on_http_request_body" => Len(Dispatches) <= 1
    /\ last.callback = "on_http_call_response" =>
          LET kind == KindHandledBy(last.context.response_handler_type)
              n == Len(DispatchKinds)
          IN  /\ n >= 1
              /\ \/ DispatchKinds[n] = kind
                 \/ n >= 2 /\ DispatchKinds[n - 1] = kind

\* All five calls were issued, one after the other.
C9_Witness ==
    /\ DispatchKinds = CallOrder
    /\ Handled(FunctionCall)
    /\ Resumed

\* ---- C10
HasJailbreakEntry ==
    /\ configuration.prompt_guards # None
    /\ configuration.prompt_guards[1].input_guards.jailbreak # None

\* The body stage ran on a complete chat-completions body whose last
\* message has content.
BodyStageCalledOut ==
    /\ last.callback = "on_http_request_body"
    /\ last.end_of_stream
    /\ last.bytes_available
    /\ inbound.body.kind = "json"
    /\ inbound.body.json.messages # None
    /\ InboundMessages # <<>>
    /\ InboundMessages[Len(InboundMessages)].content # None

\* C10: a guard call is dispatched only when a Jailbreak entry is
\* configured, and then it is the call the body stage dispatches; without a
\* guards object, or without a Jailbreak entry in it, the first outbound
\* call of the request is the embedding call.
C10_GuardIffJailbreakEntry ==
    /\ Dispatched("guard") => HasJailbreakEntry
    /\ Dispatches # <<>> =>
          Dispatches[1].kind = IF HasJailbreakEntry THEN "guard" ELSE "embedding"
    /\ BodyStageCalledOut =>
          DispatchKinds = IF HasJailbreakEntry THEN <<"guard">> ELSE <<"embedding">>

\* No guards object is configured: the embedding call is first.
C10_Witness ==
    /\ configuration.prompt_guards = None
    /\ BodyStageCalledOut
    /\ DispatchKinds = <<"embedding">>

\* ---- C11
\* A tool reply with a :status and a readable body was handled.
ToolAnswered ==
    /\ Handled(FunctionCall)
    /\ last.reply.status # None
    /\ unwrap(last.reply.body).kind = "text"

ToolStatus == last.reply.status[1]

\* The request ended with the 400 that reports the tool's cluster and path.
ToolErrorSent ==
    /\ LastCall.op = "send"
    /\ LastCall.status = 400
    /\ LastCall.body.cluster = last.context.up_stream_cluster[1]
    /\ LastCall.body.path = last.context.up_stream_cluster_path[1]
    /\ Ops(hostcalls, "set_body") = {}
    /\ ~Resumed

\* C11: on the tool endpoint reply, every non-2xx status ends the request
\* with a 400 whose body names the captured cluster and path, the request
\* body is not replaced and the request is not resumed; every 2xx status
\* (200, 201, 204) lets the filter go on to synthesize the upstream body.
C11_ToolStatusClasses ==
    ToolAnswered =>
        IF ToolStatus \in {"200", "201", "204"}
        THEN ~(LastCall.op = "send" /\ LastCall.status = 400)
        ELSE ToolErrorSent

\* ---- C12
\* The tool replied and the request was forwarded.
ToolSuccessForwarded ==
    /\ Handled(FunctionCall)
    /\ Resumed

\* The prompt target the CallContext names (the zero-shot predicted class).
ContextPromptTarget == PromptTargets[last.context.prompt_target_name[1]]

ExpectedSynthesizedMessages ==
    InboundMessages
    \o (IF ContextPromptTarget.system_prompt # None
        THEN <<[role |-> SYSTEM_ROLE, content |-> ContextPromptTarget.system_prompt,
                model |-> None, tool_calls |-> None]>>
        ELSE <<>>)
    \o <<[role |-> USER_ROLE, content |-> Some(unwrap(last.reply.body).text),
          model |-> None, tool_calls |-> None],
         [role |-> USER_ROLE, content |-> InboundMessages[Len(InboundMessages)].content,
          model |-> None, tool_calls |-> None]>>

\* stream and stream_options as the body stage parsed them: stream defaults
\* to false, stream_options to include_usage = true when stream is true.
ParsedStream ==
    IF inbound.body.json.stream = None THEN FALSE ELSE inbound.body.json.stream[1]

ParsedStreamOptions ==
    IF ParsedStream /\ inbound.body.json.stream_options = None
    THEN Some([include_usage |-> TRUE])
    ELSE inbound.body.json.stream_options

\* C12: after a successful tool reply the forwarded body has the original
\* messages in order, then a system message with the prompt target's system
\* prompt exactly when the target has one, then a user message with the tool
\* reply body, then a user message with the original user message; tools is
\* absent, stream and stream_options are those of the parsed inbound body.
C12_SynthesizedBody ==
    ToolSuccessForwarded =>
        /\ req_body.kind = "json"
        /\ req_body.json.messages = Some(ExpectedSynthesizedMessages)
        /\ req_body.json.tools = None
        /\ req_body.json.stream = Some(ParsedStream)
        /\ req_body.json.stream_options = ParsedStreamOptions
        /\ LastCall.op = "resume"
        /\ hostcalls[Len(hostcalls) - 1] = set_http_request_body(req_body)

\* A streaming two-message request answered through a target with a system
\* prompt.
C12_Witness ==
    /\ ToolSuccessForwarded
    /\ ContextPromptTarget.system_prompt # None
    /\ Len(InboundMessages) = 2
    /\ ParsedStream
    /\ inbound.body.json.tools # None

\* ---- C13
\* The tool reply passed the status check and the upstream body was built.
ToolSynthesized ==
    /\ Handled(FunctionCall)
    /\ last.reply.status \in {None, Some("200")}
    /\ unwrap(last.reply.body).kind = "text"

\* The headers stage saved a rate-limit selector: the request names a
\* selector header and carries it.
SelectorCaptured ==
    /\ inbound.headers[RATELIMIT_SELECTOR_HEADER_KEY] # <<>>
    /\ inbound.headers[inbound.headers[RATELIMIT_SELECTOR_HEADER_KEY][1]] # <<>>

BodyReplacedAndResumed ==
    /\ Cardinality(Ops(hostcalls, "set_body")) = 1
    /\ Cardinality(Ops(hostcalls, "resume")) = 1
    /\ hostcalls[Len(hostcalls) - 1] = set_http_request_body(req_body)
    /\ LastCall.op = "resume"
    /\ req_body # inbound.body
    /\ stage = "forwarded"

\* C13: with a selector captured and tokenization succeeding, a refusal of
\* the limiter ends the request with a 429, ratelimited_rq goes up by one
\* (from zero), the request body stays the inbound body and the request is
\* not resumed; when the limiter allows, the body is replaced by the
\* synthesized one and the request is resumed exactly once.
C13_RatelimitGate ==
    (ToolSynthesized /\ SelectorCaptured /\ last.reply.gate.tokens # None) =>
        /\ Cardinality(Ops(hostcalls, "check_limit")) = 1
        /\ IF last.reply.gate.allowed
           THEN /\ BodyReplacedAndResumed
                /\ ratelimited_rq = 0
           ELSE /\ LastCall = send_http_response(429, [text |-> "Exceeded Ratelimit"])
                /\ ratelimited_rq = 1
                /\ Ops(hostcalls, "set_body") = {}
                /\ req_body = inbound.body
                /\ ~Resumed
                /\ stage = "paused"

\* The limiter refused a request.
C13_Witness ==
    /\ ToolSynthesized
    /\ SelectorCaptured
    /\ last.reply.gate.tokens # None
    /\ ~last.reply.gate.allowed
    /\ ratelimited_rq = 1

\* ---- C14
\* C14: when no selector was captured at the headers stage, or tokenization
\* of the synthesized body fails, the limiter is not consulted,
\* ratelimited_rq does not change, and the synthesized request is forwarded:
\* the body is replaced and the request resumed.
C14_GateSkipped ==
    (ToolSynthesized /\ (~SelectorCaptured \/ last.reply.gate.tokens = None)) =>
        /\ Ops(hostcalls, "check_limit") = {}
        /\ ratelimited_rq = 0
        /\ BodyReplacedAndResumed

\* Tokenization failed under a captured selector and a limiter that would
\* have refused.
C14_Witness ==
    /\ ToolSynthesized
    /\ SelectorCaptured
    /\ last.reply.gate.tokens = None
    /\ ~last.reply.gate.allowed
    /\ Resumed

\* ---- C15
HeadersStageDone == stage # "headers"

\* C15: after the headers stage no api key header of any known provider
\* remains on the request, whichever provider was selected and whichever
\* api key headers the client sent.
C15_ApiKeysScrubbed ==
    HeadersStageDone =>
        \A p \in LlmProvidersVariants : req_headers[p.api_key_header] = <<>>

\* ---- C16
\* The api key the client sent for the selected provider (<<>>: none).
SelectedApiKey == inbound.headers[llm_provider[1].api_key_header]

\* C16: after the headers stage an Authorization header is on the request
\* exactly when the client sent the api key header of the selected provider,
\* and its value is then "Bearer " followed by that key; an Authorization
\* header of the client does not survive when the key is missing.
C16_AuthorizationIffApiKey ==
    HeadersStageDone =>
        IF SelectedApiKey = <<>>
        THEN req_headers["authorization"] = <<>>
        ELSE req_headers["authorization"] =
                 <<IF SelectedApiKey[1] = "sk-openai" THEN "Bearer sk-openai"
                   ELSE "Bearer sk-mistral">>

\* ---- C17
\* C17: when the api key header of the selected provider is missing, the
\* request ends with a single 400: it does not continue upstream, no
\* outbound call is dispatched, no second response is sent and the request
\* is never resumed, whatever body callbacks follow.
C17_MissingKeyShortCircuits ==
    (HeadersStageDone /\ SelectedApiKey = <<>>) =>
        /\ hostcalls = <<send_http_response(400, [text |-> "missing api key"])>>
        /\ stage \notin {"body", "forwarded"}
        /\ callouts = {}

\* ---- C18
\* The body the client sent is not a ChatCompletionsRequest: it is not JSON
\* of that shape, or it has no messages field.
UndecodableBody ==
    \/ inbound.body.kind = Garbage
    \/ inbound.body.kind = "json" /\ inbound.body.json.messages = None

\* The body stage ran on the complete body and obtained its bytes.
CompleteBodyDelivered ==
    /\ last.callback = "on_http_request_body"
    /\ last.end_of_stream
    /\ last.bytes_available

\* C18: when the complete body cannot be decoded as a
\* ChatCompletionsRequest, the body stage sends a 400 and returns Pause, no
\* outbound call is dispatched, the token map is empty, the request is not
\* resumed and no callback can follow.
C18_UndecodableBodyRejected ==
    (CompleteBodyDelivered /\ UndecodableBody) =>
        /\ LastCall = send_http_response(400, [text |-> "Failed to deserialize"])
        /\ last.action = "Pause"
        /\ Dispatches = <<>>
        /\ callouts = {}
        /\ ~Resumed
        /\ stage = "paused"
        /\ ~ENABLED Next

\* A JSON body without messages was rejected.
C18_Witness ==
    /\ CompleteBodyDelivered
    /\ inbound.body.kind = "json"
    /\ inbound.body.json.messages = None
    /\ LastCall.op = "send"
    /\ LastCall.status = 400

\* C19: after startup with N >= 1 prompt targets, create_http_context returns
\* no context in every state in which fewer than N distinct (name, Description)
\* embedding entries have been received, the state right after construction
\* and configuration and before the first tick included.
C19_NoContextBeforeCatalog ==
    Cardinality(prompt_targets) >= 1 =>
        \A c \in http_contexts :
            Cardinality(c.received) < Cardinality(prompt_targets) => c.context = None

\* The last root callback was a reply carrying a vector for a pair that already
\* had an entry.
SecondReply ==
    /\ root_last.callback = "on_http_call_response"
    /\ root_last.had_entry
    /\ root_last.reply.body = "json"
    /\ root_last.reply.data # <<>>

\* The vectors visible for the pair the last reply was about.
VisibleForLast ==
    StoredFor(temp_embeddings_store, root_last.context.prompt_target_name,
              root_last.context.embedding_type)
    \cup StoredFor(Published, root_last.context.prompt_target_name,
                   root_last.context.embedding_type)

CatalogNames(context) == {e.name : e \in context[1].embedding_store}

\* C21: no partial catalog is ever visible to a request: the embedding catalog
\* every request context reads has an entry for every configured prompt
\* target, however the startup embedding replies interleave with the creation
\* of request contexts.
C21_NoPartialCatalogVisible ==
    \A c \in http_contexts :
        c.context # None => CatalogNames(c.context) = prompt_targets

\* The last root callback was a reply that cannot be decoded or carries no
\* embedding: an empty body, an undecodable body, or an empty data list.
UnusableReply ==
    /\ root_last.callback = "on_http_call_response"
    /\ \/ root_last.reply.body \in {"empty", "undecodable"}
       \/ root_last.reply.body = "json" /\ root_last.reply.data = <<>>

\* C22: at startup an embedding reply that fails to deserialize or carries
\* empty data, an empty reply body included, is fatal in the root filter: the
\* filter aborts instead of ignoring the reply.
C22_UnusableReplyFatal == UnusableReply => root = "aborted"

\* The entries staged or published.
Catalogued == temp_embeddings_store \cup Published

\* The first tick left exactly one call per target in flight and switched the
\* tick off.
FirstTickDispatched ==
    (root_last.callback = "on_tick" /\ ticks = 1) =>
        /\ tick_period = 0
        /\ Cardinality(root_callouts) = Cardinality(prompt_targets)
        /\ \A n \in prompt_targets :
              \E e \in root_callouts : e.context = FilterCallContext(n, Description)

\* With N >= 1 targets the catalog is published exactly when N replies were
\* handled, and then it has one entry per target.
PublishedAtNth ==
    Cardinality(prompt_targets) >= 1 =>
        /\ Published # {} <=> Cardinality(received) = Cardinality(prompt_targets)
        /\ Published # {} =>
              /\ CatalogNames(Some([embedding_store |-> Published])) = prompt_targets
              /\ Cardinality(Published) = Cardinality(prompt_targets)

\* A reply's vector is what is kept for its target under Description.
ReplyVectorKept ==
    (root_last.callback = "on_http_call_response" /\ root_last.reply.data # <<>>) =>
        StoredFor(Catalogued, root_last.context.prompt_target_name, Description)
            = {root_last.reply.data[1]}

\* C23: startup liveness of the prompt_gateway root filter. With N >= 1 prompt
\* targets the first tick dispatches exactly one embedding call per target and
\* disables the tick; when every call gets a reply carrying a vector, in any
\* order, the catalog is eventually published; it has exactly N entries, each
\* holding under Description the vector returned for that target's call, and
\* it is published when the N-th reply is handled, not earlier.
C23_StartupLiveness ==
    /\ [](FirstTickDispatched /\ PublishedAtNth /\ ReplyVectorKept)
    /\ [][Catalogued \subseteq Catalogued']_vars
    /\ (root = "configured" /\ Cardinality(prompt_targets) >= 1)
          ~> (Published # {} /\ Cardinality(Published) = Cardinality(prompt_targets))

\* Two targets, both replies handled, the catalog published with both.
C23_Witness ==
    /\ Cardinality(prompt_targets) = 2
    /\ Cardinality(Published) = 2
    /\ root_callouts = {}
    /\ root_last.callback = "on_http_call_response"

\* C24: gauge balance in the request path: active_http_calls goes up by one
\* with every accepted outbound call and down by one with every reply, so its
\* net change is the number of calls awaiting a reply, and it is back at its
\* starting value whenever no call is in flight.
C24_GaugeBalanced ==
    stage # "aborted" => active_http_calls = Cardinality(callouts)

\* The tokens the request's token map holds.
HeldTokens == {c.token_id : c \in callouts}

\* The reply delivered last was for a token the request did not hold.
UnknownTokenReply == last.callback = "on_http_call_response" /\ last.context = None

IsDataChunk(body) ==
    /\ is_some(body)
    /\ unwrap(body).data
    /\ unwrap(body).payload.json = "chunk"
    /\ unwrap(body).payload.choices # <<>>

\* tokenize(chunk.model, delta.content) of a chunk; nothing without content.
ChunkTokens(body) ==
    IF is_some(unwrap(body).payload.choices[1])
    THEN token_count(unwrap(body).payload.model, unwrap(unwrap(body).payload.choices[1]))
    ELSE 0

RECURSIVE SumChunkTokens(_)
SumChunkTokens(chunks) ==
    IF chunks = <<>> THEN 0
    ELSE ChunkTokens(Head(chunks)) + SumChunkTokens(Tail(chunks))

\* A forwarded request with stream = true whose response chunks were all
\* `data: <json>` chunks.
StreamChunksDelivered ==
    /\ stage = "forwarded"
    /\ streaming_response
    /\ delivered # <<>>
    /\ \A i \in DOMAIN delivered : IsDataChunk(delivered[i])

\* C26: streaming token accounting: for a forwarded chat-completions request
\* with stream = true, after the chunks `data: <json>` were delivered to
\* on_http_response_body, the response-token counter is the sum over the
\* chunks of tokenize(chunk.model, delta.content) (4 for "ab" and "cd");
\* chunks without delta.content add nothing.
C26_StreamingTokensCounted ==
    StreamChunksDelivered => response_tokens = SumChunkTokens(delivered)

\* The callback delivered last was a response chunk of a forwarded
\* chat-completions request with stream = false.
NonStreamingChunk ==
    /\ last.callback = "on_http_response_body"
    /\ inbound.body.kind = "json"
    /\ ~streaming_response

\* The chunk delivered last was a complete chat-completions response.
CompleteResponse ==
    /\ is_some(last.body)
    /\ ~unwrap(last.body).data
    /\ unwrap(last.body).payload.json = "response"

\* C27: non-streaming response accounting: for a chat-completions request
\* with stream = false, on_http_response_body pauses on every chunk before
\* end_of_stream and leaves the counter alone, and at end_of_stream adds
\* usage.completion_tokens of the parsed response to the counter.
C27_NonStreamingCounted ==
    NonStreamingChunk =>
        /\ ~last.end_of_stream =>
              last.action = "Pause" /\ response_tokens = last.tokens_before
        /\ (last.end_of_stream /\ CompleteResponse) =>
              response_tokens = last.tokens_before
                                + unwrap(last.body).payload.usage.completion_tokens

\* The chunk delivered last to a streaming request was `data: [NONE]` or
\* `data: [DONE]`.
SentinelChunk ==
    /\ last.callback = "on_http_response_body"
    /\ streaming_response
    /\ is_some(last.body)
    /\ unwrap(last.body).data
    /\ unwrap(last.body).payload.json \in {"[NONE]", "[DONE]"}

ResolvedArguments == unwrap(ResolverToolCalls)[1].function.arguments

\* The resolver reply handled last led to a tool call.
ToolCallMade ==
    /\ ResolverAnswered
    /\ hostcalls # <<>>
    /\ LastCall.op = "dispatch"
    /\ LastCall.kind = "tool"

\* C29: tool invocation shape: when the target endpoint's method is POST (also
\* the default when none is configured) the tool call carries the tool
\* arguments as its JSON body and its path is the configured path with no
\* query string; for any other method the tool call carries no body and its
\* path is the configured path followed by the arguments as a query string.
C29_ToolInvocationShape ==
    ToolCallMade =>
        IF LastCall.method = "POST"
        THEN /\ LastCall.body = Some(ResolvedArguments)
             /\ LastCall.path.query = None
        ELSE /\ LastCall.body = None
             /\ LastCall.path.query = Some(ResolvedArguments)

\* The tokens the token map of the other request holds.
OtherTokens == {c.token_id : c \in unwrap(other).callouts}

\* A delivered callback without the token the host used for it.
Untokened(l) ==
    IF l.callback = "on_http_call_response" THEN [l EXCEPT !.token_id = 0] ELSE l

\* The two requests had the same inputs and were delivered the same reply last.
SameInputsAndReplies ==
    /\ other # None
    /\ inbound = unwrap(other).inbound
    /\ Untokened(last) = Untokened(unwrap(other).last)

StartupHandled ==
    /\ root = "configured"
    /\ ticks > 0
    /\ root_callouts = {}
    /\ \A n \in prompt_targets, k \in {Name, Description} : StoredFor(received, n, k) # {}

\* C31: once all startup embedding replies have been handled, the static store
\* holds for every prompt target a Description vector, the one the embedding
\* server answered for the description, whatever the order the replies came in.
C31_DescriptionStored ==
    StartupHandled =>
        \A n \in prompt_targets :
            StoredFor(EMBEDDINGS, n, Description) = StoredFor(received, n, Description)

\* ---------------------------------------------------------------------- C32
\* The step is a body callback.
BodyCallback == stage = "body" /\ last'.callback = "on_http_request_body"

\* The body the client sent decodes, and its messages list is empty or its last
\* message has no content.
NoUserMessage ==
    /\ inbound.body.kind = "json"
    /\ inbound.body.json.messages # None
    /\ \/ InboundMessages = <<>>
       \/ InboundMessages[Len(InboundMessages)].content = None

\* The callback returned Continue, made no host call and left the token map empty.
EarlyContinue ==
    /\ last'.action = "Continue"
    /\ hostcalls' = hostcalls
    /\ callouts' = {}
    /\ next_token_id' = next_token_id
    /\ active_http_calls' = active_http_calls
    /\ stage' = "forwarded"

\* C32: a body callback with end_of_stream = false returns Pause and changes no
\* request state; an end_of_stream callback on an empty body returns Continue;
\* so does one on a decoded body whose messages list is empty or whose last
\* message has no content; in all three cases nothing is dispatched and the
\* token map stays empty.
C32_BodyEarlyExits ==
    [][BodyCallback =>
          /\ ~last'.end_of_stream =>
                /\ last'.action = "Pause"
                /\ callouts' = {}
                /\ UNCHANGED <<req_headers, req_body, stage, llm_provider,
                               ratelimit_selector, streaming_response, callouts,
                               active_http_calls, ratelimited_rq, next_token_id,
                               hostcalls, response>>
          /\ (last'.end_of_stream /\ inbound.body.kind = "empty") => EarlyContinue
          /\ (last'.end_of_stream /\ last'.bytes_available /\ NoUserMessage)
                => EarlyContinue]_vars

\* The body stage ran on a complete body whose last message has no content, and
\* the request went upstream without a call.
C32_Witness ==
    /\ CompleteBodyDelivered
    /\ NoUserMessage
    /\ Len(InboundMessages) = 2
    /\ last.action = "Continue"
    /\ stage = "forwarded"
    /\ Dispatches = <<>>
    /\ callouts = {}

\* ---------------------------------------------------------------------- C33
\* The host calls the step made.
NewCalls == SubSeq(hostcalls', Len(hostcalls) + 1, Len(hostcalls'))

\* The step asked for an outbound call and the host rejected it.
RejectedKinds ==
    {NewCalls[i].kind : i \in {j \in DOMAIN NewCalls :
                                  NewCalls[j].op = "dispatch" /\ ~NewCalls[j].ok}}

\* The status the error response for a rejected dispatch of a kind carries.
RejectedStatus(kind) == IF kind \in {"resolver", "tool"} THEN 400 ELSE 500

\* C33: when the host rejects an outbound dispatch (guard, embedding, zero-shot,
\* function-resolver or tool), no CallContext is inserted into the token map,
\* active_http_calls is not incremented, the request is not resumed, and the
\* request ends with one error response: 400 for the function-resolver and tool
\* dispatches, 500 for the guard, embedding and zero-shot dispatches.
C33_DispatchFailureClean ==
    [][\A kind \in RejectedKinds :
          /\ callouts' \subseteq callouts
          /\ callouts' = {}
          /\ next_token_id' = next_token_id
          /\ active_http_calls' <= active_http_calls
          /\ Ops(NewCalls, "resume") = {}
          /\ Cardinality(Ops(NewCalls, "send")) = 1
          /\ \A i \in Ops(NewCalls, "send") : NewCalls[i].status = RejectedStatus(kind)
          /\ stage' = "paused"]_vars

\* The dispatch of each kind was rejected in some run; here the tool dispatch,
\* the last of the chain.
C33_Witness ==
    /\ Handled(FunctionResolver)
    /\ LastCall.op = "send"
    /\ LastCall.status = 400
    /\ Len(hostcalls) > 1
    /\ hostcalls[Len(hostcalls) - 1].op = "dispatch"
    /\ hostcalls[Len(hostcalls) - 1].kind = "tool"
    /\ ~hostcalls[Len(hostcalls) - 1].ok
    /\ callouts = {}
    /\ stage = "paused"

\* ---------------------------------------------------------------------- C34
\* The calls of the headers stage: the 400 it sends when the api key is missing.
HeadersStageCalls == IF HeadersStageDone /\ SelectedApiKey = <<>> THEN 1 ELSE 0

\* The host calls of the body stage and of the reply handlers.
ChainCalls == SubSeq(hostcalls, HeadersStageCalls + 1, Len(hostcalls))

\* How many terminal outcomes the body stage and the reply handlers produced:
\* resumed upstream, answered with a local response, fatal abort.
Outcomes ==
    Cardinality(Ops(ChainCalls, "send")) + Cardinality(Ops(ChainCalls, "resume"))
        + (IF stage = "aborted" THEN 1 ELSE 0)

\* The step is a reply handler's.
ReplyStep == stage = "paused" /\ callouts # {} /\ last'.callback = "on_http_call_response"

\* The outbound calls of the step that the host accepted.
NewAccepted == {i \in Ops(NewCalls, "dispatch") : NewCalls[i].ok}

\* The terminal outcomes of the step.
NewOutcomes ==
    Cardinality(Ops(NewCalls, "send")) + Cardinality(Ops(NewCalls, "resume"))
        + (IF stage' = "aborted" THEN 1 ELSE 0)

AnsweredLocally == Ops(ChainCalls, "send") # {}

InvokedTarget ==
    CHOOSE n \in PromptTargetNames :
        /\ PromptTargets[n].endpoint # None
        /\ PromptTargets[n].endpoint[1].name = last.context.up_stream_cluster[1]

IsSystemMessage(m) == m.role = SYSTEM_ROLE

\* The system prompts in the body that went upstream.
ForwardedSystemPrompts ==
    LET system == SelectSeq(unwrap(req_body.json.messages), IsSystemMessage)
    IN  {system[i].content : i \in DOMAIN system}

\* C36: the system prompt injected into the synthesized upstream body is that of
\* the prompt target whose endpoint was invoked, the target tool_calls[0] names,
\* also when that name differs from the zero-shot predicted class.
C36_SystemPromptOfInvokedTarget ==
    ToolSuccessForwarded =>
        ForwardedSystemPrompts =
            (IF PromptTargets[InvokedTarget].system_prompt = None THEN {}
             ELSE {PromptTargets[InvokedTarget].system_prompt})

\* ---------------------------------------------------------------------- C37
\* The zero-shot reply handled last predicts a class that is no prompt target.
ZeroShotNamedUnknown ==
    /\ Handled(ZeroShotIntent)
    /\ unwrap(last.reply.body).kind = "json"
    /\ unwrap(last.reply.body).predicted_class \notin PromptTargetNames

\* The resolver reply handled last names, in its first tool call, something that
\* is no prompt target or a prompt target without an endpoint.
ResolverNamedUnusable ==
    /\ ResolverListedToolCalls
    /\ \/ FirstToolCallName \notin PromptTargetNames
       \/ ~FirstToolCallHasEndpoint

\* The handler panicked after the call of a kind was answered: that accepted
\* call is still the last host call of the request, nothing was sent or resumed.
AbortedAfter(kind) ==
    /\ stage = "aborted"
    /\ callouts = {}
    /\ LastCall.op = "dispatch"
    /\ LastCall.kind = kind
    /\ LastCall.ok
    /\ ~AnsweredLocally
    /\ ~Resumed

\* C37: a zero-shot reply whose predicted_class is not among the prompt target
\* names, and a resolver reply whose first tool call names no configured prompt
\* target or one without an endpoint, abort the handler: no response is sent,
\* the request is not resumed and no further call is dispatched.
C37_UnknownNameFatal ==
    /\ ZeroShotNamedUnknown => AbortedAfter("zeroshot")
    /\ ResolverNamedUnusable => AbortedAfter("resolver")

\* The resolver named the target that has no endpoint, and the request aborted.
C37_Witness ==
    /\ ResolverListedToolCalls
    /\ FirstToolCallName = "chat"
    /\ AbortedAfter("resolver")

\* ---------------------------------------------------------------------- C38
\* The last callback was the legacy filter's reply handler for a call of the
\* given type, and the reply had a body.
LegacyReplied(request_type) ==
    /\ last.callback = "on_http_call_response"
    /\ last.context.request_type = request_type
    /\ is_some(last.reply.body)

\* The function-resolver's reply listed tool calls for a prompt target with
\* parameters, and the first tool call has no argument for a required one.
ResolverLacksRequired ==
    /\ LegacyReplied("FunctionResolver")
    /\ unwrap(last.reply.body).kind = "json"
    /\ is_some(unwrap(last.reply.body).message.content)
    /\ unwrap(unwrap(last.reply.body).message.content).kind = "tool_calls"
    /\ unwrap(unwrap(last.reply.body).message.content).tool_calls # <<>>
    /\ is_some(unwrap(last.context.prompt_target).parameters)
    /\ missing_required_parameters(
           unwrap(unwrap(last.context.prompt_target).parameters),
           unwrap(unwrap(last.reply.body).message.content).tool_calls[1].arguments) # <<>>

\* The tool endpoint calls the request asked for, accepted by the host or not.
LegacyToolDispatches == {i \in Ops(hostcalls, "dispatch") : hostcalls[i].kind = "tool"}

MissingParameterResponses ==
    {i \in Ops(hostcalls, "send") :
        hostcalls[i].status = 400 /\ hostcalls[i].body = "missing required parameter"}

\* C38: in the legacy filter, when the function-resolver's tool call lacks an
\* argument for a parameter the prompt target marks required, the request ends
\* with HTTP 400 "missing required parameter" and no tool endpoint call is
\* dispatched for that request.
C38_MissingParameterEndsRequest ==
    ResolverLacksRequired =>
        /\ MissingParameterResponses # {}
        /\ LegacyToolDispatches = {}
        /\ callouts = {}

\* ---------------------------------------------------------------------- C39
\* The request has a terminal outcome: resumed upstream, answered with a local
\* response, or aborted by a panic.
LegacyTerminal ==
    \/ Ops(hostcalls, "resume") # {}
    \/ Ops(hostcalls, "send") # {}
    \/ stage = "aborted"

\* C39: in the legacy filter, every outbound-call reply either dispatches the
\* next call or ends the request (resume or local response): a paused request
\* is never left without a pending call and without a terminal outcome,
\* including when the reply carries no body.
C39_ReplyLeavesCallOrOutcome ==
    last.callback = "on_http_call_response" => (callouts # {} \/ LegacyTerminal)

\* The same for the replies that carry a body.
ReplyWithBodyLeavesCallOrOutcome ==
    (last.callback = "on_http_call_response" /\ is_some(last.reply.body))
        => (callouts # {} \/ LegacyTerminal)


============================================================================
